---------------------------- MODULE Spec2Model ----------------------------
(***************************************************************************)
(* A model of the Zeda backend's Protect engine                            *)
(* (src/backend/src/controllers/protect.ts) and of the two external calls  *)
(* it awaits (src/backend/src/lib/openai.ts, src/backend/src/lib/gemini.ts)*)
(*                                                                         *)
(* Strings that the code inspects character by character (the text handed  *)
(* to the PII masker) are sequences of one-character strings.              *)
(***************************************************************************)
EXTENDS Integers, Sequences, FiniteSets, TLC

(***************************************************************************)
(* Characters and the character classes of the regular expressions.        *)
(***************************************************************************)
Digits == {"0", "1", "2", "3", "4", "5", "6", "7", "8", "9"}

LowerLetters ==
    {"a", "b", "c", "d", "e", "f", "g", "h", "i", "j", "k", "l", "m",
     "n", "o", "p", "q", "r", "s", "t", "u", "v", "w", "x", "y", "z"}

UpperLetters ==
    {"A", "B", "C", "D", "E", "F", "G", "H", "I", "J", "K", "L", "M",
     "N", "O", "P", "Q", "R", "S", "T", "U", "V", "W", "X", "Y", "Z"}

IsDigit(c) == c \in Digits

\* [A-Z] under the i flag
IsLetter(c) == c \in LowerLetters \/ c \in UpperLetters

\* \w
IsWordChar(c) == IsDigit(c) \/ IsLetter(c) \/ c = "_"

Letters == LowerLetters \cup UpperLetters

\* [A-Z0-9._%+-] under the i flag
EmailLocalChars == Digits \cup Letters \cup {".", "_", "%", "+", "-"}

\* [A-Z0-9.-] under the i flag
EmailDomainChars == Digits \cup Letters \cup {".", "-"}

\* [-.\s]
IsPhoneSep(c) == c \in {"-", ".", " ", "\n", "\t"}

\* [ -]
IsCardSep(c) == c \in {" ", "-"}

DigitValue(c) ==
    CASE c = "0" -> 0 [] c = "1" -> 1 [] c = "2" -> 2 [] c = "3" -> 3
      [] c = "4" -> 4 [] c = "5" -> 5 [] c = "6" -> 6 [] c = "7" -> 7
      [] c = "8" -> 8 [] c = "9" -> 9

Chars(t, i) == IF i >= 1 /\ i <= Len(t) THEN t[i] ELSE ""

\* value.replace(/\D/g, '')
OnlyDigits(t) == SelectSeq(t, IsDigit)

\* digits.slice(-4)
LastFour(d) == IF Len(d) <= 4 THEN d ELSE SubSeq(d, Len(d) - 3, Len(d))

\* \b at the gap before position p
WordBoundary(t, p) == IsWordChar(Chars(t, p - 1)) # IsWordChar(Chars(t, p))

\* the position after the longest run of characters of one class that starts at i
RunEnd(t, i, class) ==
    CHOOSE e \in i..(Len(t) + 1) :
        /\ \A k \in i..(e - 1) : t[k] \in class
        /\ (e = Len(t) + 1 \/ t[e] \notin class)

DigitsAt(t, i, n) == i + n - 1 <= Len(t) /\ \A k \in i..(i + n - 1) : IsDigit(t[k])

SetMax(S) == CHOOSE x \in S : \A y \in S : y <= x

(***************************************************************************)
(* The four patterns of detectAndMaskPii.  Each XMatchEnd(t, i) is the     *)
(* position after the match the regular-expression engine finds when it    *)
(* tries the pattern at position i of t (greedy and lazy quantifiers tried *)
(* in the engine's order), or 0 when the pattern does not match there.     *)
(***************************************************************************)

\* /[A-Z0-9._%+-]+@[A-Z0-9.-]+\.[A-Z]{2,}/gi
EmailMatchEnd(t, i) ==
    LET a == RunEnd(t, i, EmailLocalChars) IN
    IF a = i \/ Chars(t, a) # "@" THEN 0
    ELSE LET d0 == a + 1
             dEnd == RunEnd(t, d0, EmailDomainChars)
             dots == {e \in (d0 + 1)..(dEnd - 1) :
                         t[e] = "." /\ RunEnd(t, e + 1, Letters) >= e + 3}
         IN IF dots = {} THEN 0 ELSE RunEnd(t, SetMax(dots) + 1, Letters)

\* (?:\(\d{3}\)|\d{3})[-.\s]?\d{3}[-.\s]?\d{4}
PhoneTailEnd(t, j) ==
    LET a == IF Chars(t, j) = "(" /\ DigitsAt(t, j + 1, 3) /\ Chars(t, j + 4) = ")"
             THEN j + 5
             ELSE IF DigitsAt(t, j, 3) THEN j + 3 ELSE 0
        b == IF a # 0 /\ IsPhoneSep(Chars(t, a)) THEN a + 1 ELSE a
        c == IF b # 0 /\ DigitsAt(t, b, 3) THEN b + 3 ELSE 0
        d == IF c # 0 /\ IsPhoneSep(Chars(t, c)) THEN c + 1 ELSE c
    IN IF d # 0 /\ DigitsAt(t, d, 4) THEN d + 4 ELSE 0

\* the ways (?:\+?1[-.\s]?)? can match at i, in the order the engine tries them
PhonePrefixEnds(t, i) ==
    LET one == IF Chars(t, i) = "+" /\ Chars(t, i + 1) = "1" THEN i + 2
               ELSE IF Chars(t, i) = "1" THEN i + 1 ELSE 0
    IN (IF one # 0 /\ IsPhoneSep(Chars(t, one)) THEN <<one + 1>> ELSE <<>>)
       \o (IF one # 0 THEN <<one>> ELSE <<>>)
       \o <<i>>

\* /(?:\+?1[-.\s]?)?(?:\(\d{3}\)|\d{3})[-.\s]?\d{3}[-.\s]?\d{4}/g
PhoneMatchEnd(t, i) ==
    LET starts == PhonePrefixEnds(t, i)
        ok == {n \in 1..Len(starts) : PhoneTailEnd(t, starts[n]) # 0}
    IN IF ok = {} THEN 0
       ELSE PhoneTailEnd(t, starts[CHOOSE n \in ok : \A m \in ok : n <= m])

\* /\b\d{3}-\d{2}-\d{4}\b/g
SsnMatchEnd(t, i) ==
    IF /\ WordBoundary(t, i)
       /\ DigitsAt(t, i, 3) /\ Chars(t, i + 3) = "-"
       /\ DigitsAt(t, i + 4, 2) /\ Chars(t, i + 6) = "-"
       /\ DigitsAt(t, i + 7, 4)
       /\ WordBoundary(t, i + 11)
    THEN i + 11 ELSE 0

\* (?:\d[ -]*?){13,19}\b after k groups, at position j: the engine first tries
\* one more group (greedy), then to stop here, then one more separator (lazy)
RECURSIVE CardFrom(_, _, _)
CardFrom(t, j, k) ==
    LET more == IF k < 19 /\ IsDigit(Chars(t, j)) THEN CardFrom(t, j + 1, k + 1) ELSE 0
        stop == IF k >= 13 /\ WordBoundary(t, j) THEN j ELSE 0
        sep  == IF IsCardSep(Chars(t, j)) THEN CardFrom(t, j + 1, k) ELSE 0
    IN IF more # 0 THEN more ELSE IF stop # 0 THEN stop ELSE sep

\* /\b(?:\d[ -]*?){13,19}\b/g
CardMatchEnd(t, i) ==
    IF WordBoundary(t, i) /\ IsDigit(Chars(t, i)) THEN CardFrom(t, i + 1, 1) ELSE 0

(***************************************************************************)
(* The masks and the Luhn checksum.                                        *)
(***************************************************************************)
RedactedEmail ==
    <<"[", "R", "E", "D", "A", "C", "T", "E", "D", "_", "E", "M", "A", "I", "L", "]">>

Stars(n) == [k \in 1..n |-> "*"]

\* the position of the first "@" of t at or after i, or 0
FirstAt(t, i) ==
    IF \E k \in i..Len(t) : t[k] = "@"
    THEN CHOOSE k \in i..Len(t) : t[k] = "@" /\ \A m \in i..(k - 1) : t[m] # "@"
    ELSE 0

maskEmail(value) ==
    LET at1 == FirstAt(value, 1)
        at2 == IF at1 = 0 THEN 0 ELSE FirstAt(value, at1 + 1)
        name == IF at1 = 0 THEN value ELSE SubSeq(value, 1, at1 - 1)
        domain == IF at1 = 0 THEN <<>>
                  ELSE SubSeq(value, at1 + 1, IF at2 = 0 THEN Len(value) ELSE at2 - 1)
        safeName == IF Len(name) <= 2
                    THEN (IF Len(name) = 0 THEN <<>> ELSE <<name[1]>>) \o <<"*">>
                    ELSE <<name[1]>> \o Stars(3) \o <<name[Len(name)]>>
    IN IF domain = <<>> THEN RedactedEmail ELSE safeName \o <<"@">> \o domain

LastFourOrStars(value) ==
    LET last4 == LastFour(OnlyDigits(value)) IN IF last4 = <<>> THEN Stars(4) ELSE last4

maskPhone(value) == <<"(", "*", "*", "*", ")", " ", "*", "*", "*", "-">> \o LastFourOrStars(value)

maskSsn(value) == <<"*", "*", "*", "-", "*", "*", "-">> \o LastFourOrStars(value)

maskCreditCard(value) ==
    <<"*", "*", "*", "*", " ", "*", "*", "*", "*", " ", "*", "*", "*", "*", " ">>
        \o LastFourOrStars(value)

\* the loop of luhnCheck from index i down to 1
RECURSIVE LuhnSum(_, _, _)
LuhnSum(digits, i, shouldDouble) ==
    IF i < 1 THEN 0
    ELSE LET v == DigitValue(digits[i])
             w == IF shouldDouble THEN (IF 2 * v > 9 THEN 2 * v - 9 ELSE 2 * v) ELSE v
         IN w + LuhnSum(digits, i - 1, ~shouldDouble)

luhnCheck(digits) ==
    /\ \A k \in 1..Len(digits) : IsDigit(digits[k])
    /\ LuhnSum(digits, Len(digits), FALSE) % 10 = 0

(***************************************************************************)
(* detectAndMaskPii: four String.replace passes with the g flag, each over *)
(* the text the pass before it returned.                                   *)
(***************************************************************************)
PiiKinds == <<"email", "phone", "ssn", "credit_card">>

PassMatchEnd(kind, t, i) ==
    CASE kind = "email" -> EmailMatchEnd(t, i)
      [] kind = "phone" -> PhoneMatchEnd(t, i)
      [] kind = "ssn" -> SsnMatchEnd(t, i)
      [] kind = "credit_card" -> CardMatchEnd(t, i)

\* whether the replace callback counts the match (the card callback returns
\* the match unchanged unless it has 13 to 19 digits that pass luhnCheck)
PassAccepts(kind, match) ==
    kind = "credit_card" =>
        LET digits == OnlyDigits(match)
        IN ~(Len(digits) < 13 \/ Len(digits) > 19 \/ ~luhnCheck(digits))

PassMask(kind, match) ==
    CASE kind = "email" -> maskEmail(match)
      [] kind = "phone" -> maskPhone(match)
      [] kind = "ssn" -> maskSsn(match)
      [] kind = "credit_card" -> maskCreditCard(match)

\* text.replace(pattern, callback) from position i on; acc is what the pass
\* has produced so far
RECURSIVE ReplacePass(_, _, _, _)
ReplacePass(kind, t, i, acc) ==
    IF i > Len(t) THEN acc
    ELSE LET e == PassMatchEnd(kind, t, i) IN
         IF e = 0
         THEN ReplacePass(kind, t, i + 1, [acc EXCEPT !.out = @ \o <<t[i]>>])
         ELSE LET match == SubSeq(t, i, e - 1) IN
              IF PassAccepts(kind, match)
              THEN LET masked == PassMask(kind, match) IN
                   ReplacePass(kind, t, e,
                       [out |-> acc.out \o masked,
                        count |-> acc.count + 1,
                        examples |-> IF Len(acc.examples) < 3
                                     THEN Append(acc.examples, masked)
                                     ELSE acc.examples])
              ELSE ReplacePass(kind, t, e, [acc EXCEPT !.out = @ \o match])

RunPass(kind, t) == ReplacePass(kind, t, 1, [out |-> <<>>, count |-> 0, examples |-> <<>>])

\* the passes from the k-th on, over the text t the pass before returned
RECURSIVE PassesFrom(_, _, _)
\* pass is the result of the k-th pass: the next pass runs over its text
AfterPass(k, passes, pass) == PassesFrom(k + 1, pass.out, Append(passes, pass))

PassesFrom(k, t, passes) ==
    IF k > Len(PiiKinds) THEN passes ELSE AfterPass(k, passes, RunPass(PiiKinds[k], t))

HasCount(d) == d.count > 0

\* the result object, from the results of the four passes
PiiResult(passes) ==
    [maskedText |-> passes[Len(passes)].out,
     detections |->
        SelectSeq([k \in 1..Len(passes) |->
                      [type |-> PiiKinds[k], count |-> passes[k].count,
                       examples |-> passes[k].examples]],
                  HasCount),
     totalCount |-> passes[1].count + passes[2].count + passes[3].count + passes[4].count]

detectAndMaskPii(text) ==
    IF text = <<>>
    THEN [maskedText |-> <<>>, detections |-> <<>>, totalCount |-> 0]
    ELSE PiiResult(PassesFrom(1, text, <<>>))

(***************************************************************************)
(* The texts detectAndMaskPii is applied to: a core (a run of sixteen      *)
(* digits made of four blocks, or a sample with an e-mail address, a phone *)
(* number, a social security number or a card number) between a left and a *)
(* right context.                                                          *)
(***************************************************************************)
PiiBlocks ==
    {<<"1", "2", "3", "4">>, <<"5", "6", "7", "8">>, <<"9", "0", "1", "2">>,
     <<"3", "4", "5", "6">>, <<"4", "1", "1", "1">>, <<"1", "1", "1", "1">>}

PiiDigitRuns == {a \o b \o c \o d : a \in PiiBlocks, b \in PiiBlocks, c \in PiiBlocks, d \in PiiBlocks}

PiiSamples ==
    {<<"j", "o", "h", "n", ".", "d", "o", "e", "@", "e", "x", "a", "m", "p", "l", "e", ".", "c", "o", "m">>,
     <<"a", "b", "@", "x", ".", "c", "o">>,
     <<"a", ".", "b", "+", "c", "@", "m", "a", "i", "l", ".", "e", "x", "a", "m", "p", "l", "e", ".", "o", "r", "g">>,
     <<"5", "5", "5", "-", "1", "2", "3", "-", "4", "5", "6", "7">>,
     <<"(", "5", "5", "5", ")", " ", "1", "2", "3", "-", "4", "5", "6", "7">>,
     <<"+", "1", " ", "5", "5", "5", ".", "1", "2", "3", ".", "4", "5", "6", "7">>,
     <<"1", "5", "5", "5", "1", "2", "3", "4", "5", "6", "7">>,
     <<"1", "2", "3", "-", "4", "5", "-", "6", "7", "8", "9">>,
     <<"4", "1", "1", "1", " ", "1", "1", "1", "1", " ", "1", "1", "1", "1", " ", "1", "1", "1", "1">>,
     <<"4", "1", "1", "1", "-", "1", "1", "1", "1", "-", "1", "1", "1", "1", "-", "1", "1", "1", "1">>,
     <<"1", "2", "3", "4", " ", "5", "6", "7", "8", " ", "9", "0", "1", "2", " ", "3", "4", "5", "6">>,
     <<"C", "o", "n", "t", "a", "c", "t", " ", "m", "e", " ", "a", "t", " ", "j", "o", "h", "n", ".", "d", "o", "e", "@", "e", "x", "a", "m", "p", "l", "e", ".", "c", "o", "m", " ", "o", "r", " ", "5", "5", "5", "-", "1", "2", "3", "-", "4", "5", "6", "7">>,
     <<"7", "9", "9", "2", "7", "3", "9", "8", "7", "1", "3">>,
     <<"4", "2", "2", "2", "2", "2", "2", "2", "2", "2", "2", "2", "2">>}

PiiBefore == {<<>>, <<"x", " ">>, <<"a">>}

PiiAfter == {<<>>, <<" ", "o", "k">>, <<"7">>}

PiiInputs ==
    {b \o c \o a : b \in PiiBefore, c \in PiiDigitRuns \cup PiiSamples, a \in PiiAfter}


(***************************************************************************)
(* Host names and URLs.  A host name is a sequence of characters.  A raw   *)
(* URL candidate is [prefix, host, path]: prefix is what stands before the *)
(* host ("https://", "http://", "//" or ""), path what follows it.  A      *)
(* canonical URL, what new URL(...).toString() returns, is                 *)
(* [scheme, host, path] with the host in lower case and the path at least  *)
(* "/".                                                                    *)
(***************************************************************************)
UpperSeq ==
    <<"A", "B", "C", "D", "E", "F", "G", "H", "I", "J", "K", "L", "M",
      "N", "O", "P", "Q", "R", "S", "T", "U", "V", "W", "X", "Y", "Z">>

LowerSeq ==
    <<"a", "b", "c", "d", "e", "f", "g", "h", "i", "j", "k", "l", "m",
      "n", "o", "p", "q", "r", "s", "t", "u", "v", "w", "x", "y", "z">>

LowerChar(c) ==
    IF c \in UpperLetters THEN LowerSeq[CHOOSE k \in 1..26 : UpperSeq[k] = c] ELSE c

\* String.prototype.toLowerCase on a sequence of characters
ToLowerCase(t) == [k \in 1..Len(t) |-> LowerChar(t[k])]

StartsWith(t, p) == Len(p) <= Len(t) /\ SubSeq(t, 1, Len(p)) = p

EndsWith(t, p) == Len(p) <= Len(t) /\ SubSeq(t, Len(t) - Len(p) + 1, Len(t)) = p

\* String.prototype.includes
Includes(t, p) == \E k \in 1..(Len(t) - Len(p) + 1) : SubSeq(t, k, k + Len(p) - 1) = p

\* t.split('.'), from position i on, cur being the label read so far
RECURSIVE SplitFrom(_, _, _)
SplitFrom(t, i, cur) ==
    IF i > Len(t) THEN <<cur>>
    ELSE IF t[i] = "." THEN <<cur>> \o SplitFrom(t, i + 1, <<>>)
    ELSE SplitFrom(t, i + 1, Append(cur, t[i]))

SplitDots(t) == SplitFrom(t, 1, <<>>)

\* labels.join('.')
RECURSIVE JoinDots(_)
JoinDots(labels) ==
    IF Len(labels) = 0 THEN <<>>
    ELSE IF Len(labels) = 1 THEN labels[1]
    ELSE labels[1] \o <<".">> \o JoinDots(Tail(labels))

NonEmpty(label) == label # <<>>

\* labels.slice(-n)
LastLabels(labels, n) ==
    IF Len(labels) <= n THEN labels ELSE SubSeq(labels, Len(labels) - n + 1, Len(labels))

SUSPICIOUS_TLDS ==
    {<<"z", "i", "p">>,
     <<"m", "o", "v">>,
     <<"x", "y", "z">>,
     <<"t", "o", "p">>,
     <<"c", "l", "i", "c", "k">>,
     <<"l", "i", "n", "k">>,
     <<"l", "i", "v", "e">>,
     <<"w", "o", "r", "k">>,
     <<"s", "h", "o", "p">>,
     <<"g", "q">>,
     <<"c", "f">>,
     <<"t", "k">>,
     <<"m", "l">>}

SECOND_LEVEL_TLDS ==
    {<<"c", "o", ".", "u", "k">>,
     <<"o", "r", "g", ".", "u", "k">>,
     <<"a", "c", ".", "u", "k">>,
     <<"g", "o", "v", ".", "u", "k">>,
     <<"c", "o", ".", "j", "p">>,
     <<"n", "e", ".", "j", "p">>,
     <<"o", "r", ".", "j", "p">>,
     <<"c", "o", "m", ".", "a", "u">>,
     <<"n", "e", "t", ".", "a", "u">>,
     <<"o", "r", "g", ".", "a", "u">>,
     <<"c", "o", "m", ".", "b", "r">>,
     <<"c", "o", "m", ".", "m", "x">>,
     <<"c", "o", "m", ".", "t", "r">>,
     <<"c", "o", "m", ".", "s", "g">>,
     <<"c", "o", "m", ".", "h", "k">>,
     <<"c", "o", "m", ".", "t", "w">>,
     <<"c", "o", "m", ".", "m", "y">>,
     <<"c", "o", ".", "i", "n">>,
     <<"c", "o", "m", ".", "n", "g">>,
     <<"c", "o", ".", "z", "a">>}

\* Object.entries(BRAND_DOMAINS), in insertion order
BRAND_DOMAINS ==
    <<[brand |-> "paypal", token |-> <<"p", "a", "y", "p", "a", "l">>,
       domains |-> <<<<"p", "a", "y", "p", "a", "l", ".", "c", "o", "m">>>>],
      [brand |-> "google", token |-> <<"g", "o", "o", "g", "l", "e">>,
       domains |-> <<<<"g", "o", "o", "g", "l", "e", ".", "c", "o", "m">>>>],
      [brand |-> "gmail", token |-> <<"g", "m", "a", "i", "l">>,
       domains |-> <<<<"g", "m", "a", "i", "l", ".", "c", "o", "m">>>>],
      [brand |-> "apple", token |-> <<"a", "p", "p", "l", "e">>,
       domains |-> <<<<"a", "p", "p", "l", "e", ".", "c", "o", "m">>, <<"i", "c", "l", "o", "u", "d", ".", "c", "o", "m">>>>],
      [brand |-> "amazon", token |-> <<"a", "m", "a", "z", "o", "n">>,
       domains |-> <<<<"a", "m", "a", "z", "o", "n", ".", "c", "o", "m">>>>],
      [brand |-> "microsoft", token |-> <<"m", "i", "c", "r", "o", "s", "o", "f", "t">>,
       domains |-> <<<<"m", "i", "c", "r", "o", "s", "o", "f", "t", ".", "c", "o", "m">>, <<"o", "u", "t", "l", "o", "o", "k", ".", "c", "o", "m">>, <<"l", "i", "v", "e", ".", "c", "o", "m">>>>],
      [brand |-> "facebook", token |-> <<"f", "a", "c", "e", "b", "o", "o", "k">>,
       domains |-> <<<<"f", "a", "c", "e", "b", "o", "o", "k", ".", "c", "o", "m">>>>],
      [brand |-> "instagram", token |-> <<"i", "n", "s", "t", "a", "g", "r", "a", "m">>,
       domains |-> <<<<"i", "n", "s", "t", "a", "g", "r", "a", "m", ".", "c", "o", "m">>>>],
      [brand |-> "netflix", token |-> <<"n", "e", "t", "f", "l", "i", "x">>,
       domains |-> <<<<"n", "e", "t", "f", "l", "i", "x", ".", "c", "o", "m">>>>],
      [brand |-> "chase", token |-> <<"c", "h", "a", "s", "e">>,
       domains |-> <<<<"c", "h", "a", "s", "e", ".", "c", "o", "m">>>>],
      [brand |-> "wells", token |-> <<"w", "e", "l", "l", "s">>,
       domains |-> <<<<"w", "e", "l", "l", "s", "f", "a", "r", "g", "o", ".", "c", "o", "m">>>>],
      [brand |-> "bankofamerica", token |-> <<"b", "a", "n", "k", "o", "f", "a", "m", "e", "r", "i", "c", "a">>,
       domains |-> <<<<"b", "a", "n", "k", "o", "f", "a", "m", "e", "r", "i", "c", "a", ".", "c", "o", "m">>>>],
      [brand |-> "capitalone", token |-> <<"c", "a", "p", "i", "t", "a", "l", "o", "n", "e">>,
       domains |-> <<<<"c", "a", "p", "i", "t", "a", "l", "o", "n", "e", ".", "c", "o", "m">>>>],
      [brand |-> "venmo", token |-> <<"v", "e", "n", "m", "o">>,
       domains |-> <<<<"v", "e", "n", "m", "o", ".", "c", "o", "m">>>>],
      [brand |-> "zelle", token |-> <<"z", "e", "l", "l", "e">>,
       domains |-> <<<<"z", "e", "l", "l", "e", "p", "a", "y", ".", "c", "o", "m">>>>],
      [brand |-> "cashapp", token |-> <<"c", "a", "s", "h", "a", "p", "p">>,
       domains |-> <<<<"c", "a", "s", "h", ".", "a", "p", "p">>>>],
      [brand |-> "linkedin", token |-> <<"l", "i", "n", "k", "e", "d", "i", "n">>,
       domains |-> <<<<"l", "i", "n", "k", "e", "d", "i", "n", ".", "c", "o", "m">>>>],
      [brand |-> "discord", token |-> <<"d", "i", "s", "c", "o", "r", "d">>,
       domains |-> <<<<"d", "i", "s", "c", "o", "r", "d", ".", "c", "o", "m">>>>],
      [brand |-> "roblox", token |-> <<"r", "o", "b", "l", "o", "x">>,
       domains |-> <<<<"r", "o", "b", "l", "o", "x", ".", "c", "o", "m">>>>],
      [brand |-> "steam", token |-> <<"s", "t", "e", "a", "m">>,
       domains |-> <<<<"s", "t", "e", "a", "m", "p", "o", "w", "e", "r", "e", "d", ".", "c", "o", "m">>>>]>>

FALLBACK_TRACKER_DOMAINS ==
    <<<<"g", "o", "o", "g", "l", "e", "-", "a", "n", "a", "l", "y", "t", "i", "c", "s", ".", "c", "o", "m">>,
      <<"g", "o", "o", "g", "l", "e", "t", "a", "g", "m", "a", "n", "a", "g", "e", "r", ".", "c", "o", "m">>,
      <<"d", "o", "u", "b", "l", "e", "c", "l", "i", "c", "k", ".", "n", "e", "t">>,
      <<"f", "a", "c", "e", "b", "o", "o", "k", ".", "n", "e", "t">>,
      <<"c", "o", "n", "n", "e", "c", "t", ".", "f", "a", "c", "e", "b", "o", "o", "k", ".", "n", "e", "t">>,
      <<"h", "o", "t", "j", "a", "r", ".", "c", "o", "m">>,
      <<"s", "e", "g", "m", "e", "n", "t", ".", "c", "o", "m">>,
      <<"m", "i", "x", "p", "a", "n", "e", "l", ".", "c", "o", "m">>,
      <<"a", "m", "p", "l", "i", "t", "u", "d", "e", ".", "c", "o", "m">>,
      <<"c", "l", "a", "r", "i", "t", "y", ".", "m", "s">>>>

getRegistrableDomain(hostname) ==
    LET lower == ToLowerCase(hostname)
        parts == SelectSeq(SplitDots(lower), NonEmpty)
        lastTwo == JoinDots(LastLabels(parts, 2))
    IN IF Len(parts) <= 2 THEN lower
       ELSE IF lastTwo \in SECOND_LEVEL_TLDS /\ Len(parts) >= 3
            THEN JoinDots(LastLabels(parts, 3))
            ELSE lastTwo

Min3(x, y, z) == IF x <= y /\ x <= z THEN x ELSE IF y <= z THEN y ELSE z

\* row i of the matrix from column j on: left is row[j - 1]
RECURSIVE LevRow(_, _, _, _, _, _)
LevRow(a, b, i, j, prevRow, left) ==
    IF j > Len(b) THEN <<>>
    ELSE LET cost == IF a[i] = b[j] THEN 0 ELSE 1
             \* prevRow[c] holds matrix[i - 1][c - 1]
             cell == Min3(prevRow[j + 1] + 1, left + 1, prevRow[j] + cost)
         IN <<cell>> \o LevRow(a, b, i, j + 1, prevRow, cell)

\* rows i..a.length of the matrix; the result is the last row
RECURSIVE LevRows(_, _, _, _)
LevRows(a, b, i, prevRow) ==
    IF i > Len(a) THEN prevRow
    ELSE LevRows(a, b, i + 1, <<i>> \o LevRow(a, b, i, 1, prevRow, i))

\* the distance with row 0 of the matrix left at zero; the symmetry of the
\* distance (C25) must not hold of it
DistanceFromZeroRow(a, b) == LevRows(a, b, 1, [j \in 1..(Len(b) + 1) |-> 0])[Len(b) + 1]

levenshteinDistance(a, b) ==
    LevRows(a, b, 1, [j \in 1..(Len(b) + 1) |-> j - 1])[Len(b) + 1]

\* /^\d{1,3}(\.\d{1,3}){3}$/
isIpAddress(hostname) ==
    LET labels == SplitDots(hostname)
    IN /\ Len(labels) = 4
       /\ \A k \in 1..4 :
            /\ Len(labels[k]) \in 1..3
            /\ \A m \in 1..Len(labels[k]) : IsDigit(labels[k][m])

IsLowerAlnum(c) == c \in LowerLetters \/ IsDigit(c)

\* value.replace(/[^a-z0-9]/g, '')
OnlyLowerAlnum(t) == SelectSeq(t, IsLowerAlnum)

NoReason == [kind |-> "", brand |-> "", tld |-> <<>>, distance |-> 0]

Match(url, hostname, reason, severity) ==
    [url |-> url, hostname |-> hostname, reason |-> reason, severity |-> severity]

\* the two checks of the loop over BRAND_DOMAINS for one brand
BrandMatches(url, hostname, sld, entry) ==
    LET normalizedBrand == OnlyLowerAlnum(entry.token)
        normalizedSld == OnlyLowerAlnum(sld)
        containsBrand == Includes(hostname, normalizedBrand)
        isOfficial == \E k \in 1..Len(entry.domains) : EndsWith(hostname, entry.domains[k])
        distance == levenshteinDistance(normalizedSld, normalizedBrand)
    IN IF normalizedBrand = <<>> \/ normalizedSld = <<>> THEN <<>>
       ELSE (IF containsBrand /\ ~isOfficial
             THEN <<Match(url, hostname,
                          [NoReason EXCEPT !.kind = "references", !.brand = entry.brand],
                          "high")>>
             ELSE <<>>)
            \o
            (IF ~isOfficial /\ normalizedSld # normalizedBrand /\ distance > 0 /\ distance <= 2
             THEN <<Match(url, hostname,
                          [NoReason EXCEPT !.kind = "similar", !.brand = entry.brand,
                                           !.distance = distance],
                          "high")>>
             ELSE <<>>)

RECURSIVE AllBrandMatches(_, _, _, _)
AllBrandMatches(url, hostname, sld, k) ==
    IF k > Len(BRAND_DOMAINS) THEN <<>>
    ELSE BrandMatches(url, hostname, sld, BRAND_DOMAINS[k])
         \o AllBrandMatches(url, hostname, sld, k + 1)

\* the body of the loop over urls for one URL
UrlMatches(url) ==
    LET hostname == ToLowerCase(url.host)
        registrable == getRegistrableDomain(hostname)
        labels == SplitDots(registrable)
        tld == JoinDots(Tail(labels))
        sld == labels[1]
    IN (IF StartsWith(hostname, <<"x", "n", "-", "-">>)
        THEN <<Match(url, hostname, [NoReason EXCEPT !.kind = "punycode"], "high")>>
        ELSE <<>>)
       \o (IF isIpAddress(hostname)
           THEN <<Match(url, hostname, [NoReason EXCEPT !.kind = "raw-ip"], "medium")>>
           ELSE <<>>)
       \o (IF tld \in SUSPICIOUS_TLDS
           THEN <<Match(url, hostname, [NoReason EXCEPT !.kind = "risky-tld", !.tld = tld],
                        "medium")>>
           ELSE <<>>)
       \o (IF (\E k \in 1..Len(sld) : IsDigit(sld[k])) \/ Includes(sld, <<"-">>)
           THEN <<Match(url, hostname, [NoReason EXCEPT !.kind = "digits-or-hyphens"], "low")>>
           ELSE <<>>)
       \o AllBrandMatches(url, hostname, sld, 1)

\* a list kept as it is; the count of distinct third-party resources (C14)
\* must not hold of it
KeepAll(s) == s

\* the entries of the file taken as they are; the use of the fallback list
\* for a file without a valid entry (C15) must not hold of it
LoadEntriesUnfiltered(items) == items

\* the first occurrence of every element of s, in order
RECURSIVE Unique(_)
Unique(s) ==
    IF s = <<>> THEN <<>>
    ELSE LET front == Unique(SubSeq(s, 1, Len(s) - 1))
             last == s[Len(s)]
         IN IF \E k \in 1..Len(front) : front[k] = last THEN front ELSE Append(front, last)

RECURSIVE AllUrlMatches(_)
AllUrlMatches(urls) ==
    IF urls = <<>> THEN <<>> ELSE UrlMatches(Head(urls)) \o AllUrlMatches(Tail(urls))

\* the loop that keeps the first match of every (url, reason) pair
RECURSIVE UniqueMatches(_)
UniqueMatches(matches) ==
    IF matches = <<>> THEN <<>>
    ELSE LET unique == UniqueMatches(SubSeq(matches, 1, Len(matches) - 1))
             match == matches[Len(matches)]
         IN IF \E k \in 1..Len(unique) :
                   unique[k].url = match.url /\ unique[k].reason = match.reason
            THEN unique ELSE Append(unique, match)

buildLookalikeMatches(urls) == UniqueMatches(AllUrlMatches(urls))


(***************************************************************************)
(* Texts.  The handler's text is a record of what its analyzers read in    *)
(* it: the phrases of the phishing vocabulary it contains, the URL tokens  *)
(* it contains, in order, and the characters the PII masker scans.  The    *)
(* three parts do not overlap: no phrase or URL token of the vocabulary    *)
(* holds an e-mail address, a phone number or a long run of digits.  Texts *)
(* are already whitespace-normalized and shorter than 12000 characters.    *)
(***************************************************************************)
EmptyText == [phrases |-> {}, urls |-> <<>>, pii |-> <<>>]

\* !text
IsEmptyText(text) == text = EmptyText

NullUrl == [scheme |-> "", host |-> <<>>, path |-> ""]

HostChars == Digits \cup Letters \cup {".", "-"}

\* /^https?:\/\/|^www\./i on a raw candidate
looksLikeUrl(raw) ==
    \/ raw.prefix \in {"http://", "https://"}
    \/ raw.prefix = "" /\ StartsWith(ToLowerCase(raw.host), <<"w", "w", "w", ".">>)

\* new URL(withScheme).toString(), or NullUrl where the constructor throws
normalizeUrl(raw) ==
    IF raw.host = <<>> \/ \E k \in 1..Len(raw.host) : raw.host[k] \notin HostChars
    THEN NullUrl
    ELSE [scheme |-> IF raw.prefix = "http://" THEN "http" ELSE "https",
          host |-> ToLowerCase(raw.host),
          path |-> IF raw.path = "" THEN "/" ELSE raw.path]

IsSchemeToken(raw) == raw.prefix \in {"http://", "https://"}

IsWwwToken(raw) == StartsWith(ToLowerCase(raw.host), <<"w", "w", "w", ".">>)

\* what /www\.[^\s)]+/gi matches in a token: the token from "www." on
WwwPart(raw) == [raw EXCEPT !.prefix = ""]

MapWwwPart(tokens) == [k \in 1..Len(tokens) |-> WwwPart(tokens[k])]

\* [...matches, ...wwwMatches]
extractUrlsFromText(text) ==
    SelectSeq(text.urls, IsSchemeToken) \o MapWwwPart(SelectSeq(text.urls, IsWwwToken))

\* the loop that normalizes the candidates and keeps each URL once
RECURSIVE NormalizeAll(_)
NormalizeAll(candidates) ==
    IF candidates = <<>> THEN <<>>
    ELSE LET front == NormalizeAll(SubSeq(candidates, 1, Len(candidates) - 1))
             normalizedUrl == normalizeUrl(candidates[Len(candidates)])
         IN IF normalizedUrl = NullUrl \/ \E k \in 1..Len(front) : front[k] = normalizedUrl
            THEN front
            ELSE Append(front, normalizedUrl)

(***************************************************************************)
(* The request body.  content is [kind, text, data]: kind "absent"; "text" *)
(* (a string that is prose); "url" (a string that is one URL: text.urls    *)
(* holds it); "image" (an image data URL, data "ok" when base64 data       *)
(* follows the comma and "empty" when nothing does).  url and pageUrl are  *)
(* raw candidates or NoRaw (absent); resources is a sequence of raw        *)
(* candidates.  body.text and body.normalizedPayload are absent.           *)
(***************************************************************************)
NoRaw == [prefix |-> "", host |-> <<>>, path |-> ""]

\* IMAGE_DATA_URL_REGEX.test(content)
IsImageDataUrl(content) == content.kind = "image"

readTextFromBody(body) ==
    IF body.content.kind \in {"text", "url"} THEN body.content.text ELSE EmptyText

readRawContent(body) == body.content

ContentAsUrl(body) ==
    IF body.content.kind = "url" /\ looksLikeUrl(body.content.text.urls[1])
    THEN <<body.content.text.urls[1]>> ELSE <<>>

collectUrls(body, text) ==
    NormalizeAll(
        (IF body.url # NoRaw /\ looksLikeUrl(body.url) THEN <<body.url>> ELSE <<>>)
        \o ContentAsUrl(body)
        \o extractUrlsFromText(text))

collectResourceUrls(body, text) ==
    NormalizeAll(body.resources \o extractUrlsFromText(text))

resolvePrimaryUrl(body, fallbackUrls) ==
    IF body.pageUrl # NoRaw /\ normalizeUrl(body.pageUrl) # NullUrl
    THEN normalizeUrl(body.pageUrl)
    ELSE IF body.url # NoRaw /\ normalizeUrl(body.url) # NullUrl
    THEN normalizeUrl(body.url)
    ELSE IF fallbackUrls # <<>> THEN fallbackUrls[1] ELSE NullUrl

(***************************************************************************)
(* buildPhishingFlags.  A pattern list is the set of the vocabulary's      *)
(* phrases that one of its regular expressions matches.                    *)
(***************************************************************************)
Vocabulary ==
    {"immediately", "password", "invoice", "click here",
     "to prevent data loss", "data will be deleted"}

\* /immediately/i, /data (?:will be|is) (?:deleted|removed)/i
URGENCY_PATTERNS == {"immediately", "data will be deleted"}

\* /password/i
CREDENTIAL_PATTERNS == {"password"}

\* /invoice/i
PAYMENT_PATTERNS == {"invoice"}

\* /click here|tap here|open the link|verify now/i
CTA_PATTERN == {"click here"}

\* /what you could lose|to prevent data loss|secure my data|data (?:is|will be) (?:removed|deleted)/i
DATA_LOSS_PATTERN == {"to prevent data loss", "data will be deleted"}

\* a flag whose severity is medium whatever its category; the severities of
\* the categories (C16) must not hold of it
FlagOfMediumSeverity(type, description, severity) ==
    [type |-> type, description |-> description, severity |-> "medium"]

Flag(type, description, severity) ==
    [type |-> type, description |-> description, severity |-> severity]

buildPhishingFlags(text) ==
    (IF text.phrases \cap URGENCY_PATTERNS # {}
     THEN <<Flag("Urgency & pressure",
                 "Message uses urgent or threatening language to prompt quick action.",
                 "medium")>>
     ELSE <<>>)
    \o (IF text.phrases \cap CREDENTIAL_PATTERNS # {}
        THEN <<Flag("Credential request",
                    "Message asks for passwords, codes, or sensitive account details.",
                    "high")>>
        ELSE <<>>)
    \o (IF text.phrases \cap PAYMENT_PATTERNS # {}
        THEN <<Flag("Payment pressure",
                    "Message references transfers, crypto, or invoices that can indicate fraud.",
                    "high")>>
        ELSE <<>>)
    \o (IF text.phrases \cap CTA_PATTERN # {}
        THEN <<Flag("Call-to-action link",
                    "Message encourages clicking a link, which is common in phishing.",
                    "medium")>>
        ELSE <<>>)
    \o (IF text.phrases \cap DATA_LOSS_PATTERN # {}
        THEN <<Flag("Data loss threat",
                    "Message uses data-loss fear to push immediate action.",
                    "high")>>
        ELSE <<>>)

(***************************************************************************)
(* The tracker directory and buildTrackerAudit.  The directory file is     *)
(* [state, items]: state "missing", or "array" with the entries of the     *)
(* parsed array, each [domain, owner, category] ("" for an absent owner or *)
(* category).                                                              *)
(***************************************************************************)
StripPrefix(t, p) == IF StartsWith(t, p) THEN SubSeq(t, Len(p) + 1, Len(t)) ELSE t

\* value.split('/')[0]
BeforeSlash(t) ==
    IF \E k \in 1..Len(t) : t[k] = "/"
    THEN SubSeq(t, 1, (CHOOSE k \in 1..Len(t) : t[k] = "/" /\ \A m \in 1..(k - 1) : t[m] # "/") - 1)
    ELSE t

\* the tracker domain, or <<>> for null
normalizeDomain(value) ==
    LET lower == ToLowerCase(value)
        noHttps == StripPrefix(lower, <<"h", "t", "t", "p", "s", ":", "/", "/">>)
        noScheme == IF noHttps # lower THEN noHttps
                    ELSE StripPrefix(lower, <<"h", "t", "t", "p", ":", "/", "/">>)
        withoutScheme == StripPrefix(noScheme, <<"w", "w", "w", ".">>)
    IN BeforeSlash(withoutScheme)

RECURSIVE LoadEntries(_)
LoadEntries(items) ==
    IF items = <<>> THEN <<>>
    ELSE LET domain == normalizeDomain(Head(items).domain)
         IN (IF domain = <<>> THEN <<>> ELSE <<[Head(items) EXCEPT !.domain = domain]>>)
            \o LoadEntries(Tail(items))

loadTrackerList(file) == IF file.state = "array" THEN LoadEntries(file.items) ELSE <<>>

FallbackEntries ==
    [k \in 1..Len(FALLBACK_TRACKER_DOMAINS) |->
        [domain |-> FALLBACK_TRACKER_DOMAINS[k], owner |-> "", category |-> ""]]

\* the tracker matches of one third-party resource
RECURSIVE ResourceTrackerMatches(_, _, _, _)
ResourceTrackerMatches(resourceUrl, hostname, trackers, k) ==
    IF k > Len(trackers) THEN <<>>
    ELSE LET trackerDomain == ToLowerCase(trackers[k].domain)
         IN (IF hostname = trackerDomain \/ EndsWith(hostname, <<".">> \o trackerDomain)
             THEN <<[resourceUrl |-> resourceUrl, hostname |-> hostname,
                     trackerDomain |-> trackerDomain,
                     owner |-> trackers[k].owner, category |-> trackers[k].category]>>
             ELSE <<>>)
            \o ResourceTrackerMatches(resourceUrl, hostname, trackers, k + 1)

IsThirdParty(resourceUrl, primaryDomain) ==
    IF primaryDomain # <<>>
    THEN getRegistrableDomain(ToLowerCase(resourceUrl.host)) # primaryDomain
    ELSE TRUE

RECURSIVE AllTrackerMatches(_, _, _)
AllTrackerMatches(resourceUrls, primaryDomain, trackers) ==
    IF resourceUrls = <<>> THEN <<>>
    ELSE (IF IsThirdParty(Head(resourceUrls), primaryDomain)
          THEN ResourceTrackerMatches(Head(resourceUrls), ToLowerCase(Head(resourceUrls).host),
                                      trackers, 1)
          ELSE <<>>)
         \o AllTrackerMatches(Tail(resourceUrls), primaryDomain, trackers)

\* the loop that keeps the first match of every (hostname, trackerDomain, resourceUrl)
RECURSIVE UniqueTrackerMatches(_)
UniqueTrackerMatches(matches) ==
    IF matches = <<>> THEN <<>>
    ELSE LET unique == UniqueTrackerMatches(SubSeq(matches, 1, Len(matches) - 1))
             match == matches[Len(matches)]
         IN IF \E k \in 1..Len(unique) :
                   /\ unique[k].hostname = match.hostname
                   /\ unique[k].trackerDomain = match.trackerDomain
                   /\ unique[k].resourceUrl = match.resourceUrl
            THEN unique ELSE Append(unique, match)

buildTrackerAudit(primaryUrl, resourceUrls, file) ==
    LET trackerEntries == loadTrackerList(file)
        trackers == IF Len(trackerEntries) > 0 THEN trackerEntries ELSE FallbackEntries
        primaryDomain == IF primaryUrl # NullUrl
                         THEN getRegistrableDomain(ToLowerCase(primaryUrl.host))
                         ELSE <<>>
        ThirdParty(u) == IsThirdParty(u, primaryDomain)
        thirdPartyResources == Unique(SelectSeq(resourceUrls, ThirdParty))
        uniqueTrackerMatches ==
            UniqueTrackerMatches(AllTrackerMatches(resourceUrls, primaryDomain, trackers))
    IN [primaryDomain |-> primaryDomain,
        thirdPartyResources |-> thirdPartyResources,
        trackerMatches |-> uniqueTrackerMatches,
        trackersFound |->
            Cardinality({uniqueTrackerMatches[k].trackerDomain :
                            k \in 1..Len(uniqueTrackerMatches)}),
        thirdPartyCount |-> Len(thirdPartyResources)]


(***************************************************************************)
(* Scores.                                                                 *)
(***************************************************************************)
\* clamp with its bounds dropped; the range of the scores (C2) must not hold of it
clampUnbounded(value, min, max) == value

clamp(value, min, max) ==
    LET atLeast == IF value > min THEN value ELSE min
    IN IF atLeast < max THEN atLeast ELSE max

WeightHigh == 34

WeightMedium == 22

WeightLow == 10

severityWeight(severity) ==
    IF severity = "high" THEN WeightHigh
    ELSE IF severity = "medium" THEN WeightMedium
    ELSE WeightLow

\* Math.round(x) for x = n / d with d > 0: the integer nearest to x, halves upwards
RoundRatio(n, d) == (2 * n + d) \div (2 * d)

RECURSIVE SumFlagWeights(_)
SumFlagWeights(flags) ==
    IF flags = <<>> THEN 0
    ELSE severityWeight(Head(flags).severity) + SumFlagWeights(Tail(flags))

\* 90% of the matches' weight sum, rounded once; the score with a rounded
\* weight for every match (C17) must not hold of it
SumMatchWeightsRoundedOnce(matches) ==
    RoundRatio(9 * SumFlagWeights(matches), 10)

\* the sum of Math.round(severityWeight(match.severity) * 0.9)
RECURSIVE SumMatchWeights(_)
SumMatchWeights(matches) ==
    IF matches = <<>> THEN 0
    ELSE RoundRatio(severityWeight(Head(matches).severity) * 9, 10)
         + SumMatchWeights(Tail(matches))

HasFlag(flags, type) == \E k \in 1..Len(flags) : flags[k].type = type

HighSeverityCount(flags) == Cardinality({k \in 1..Len(flags) : flags[k].severity = "high"})

hasCriticalScamPattern(phishingFlags) ==
    /\ HasFlag(phishingFlags, "Urgency & pressure")
    /\ HasFlag(phishingFlags, "Call-to-action link")
    /\ (HasFlag(phishingFlags, "Payment pressure") \/ HasFlag(phishingFlags, "Credential request"))
    /\ HasFlag(phishingFlags, "Data loss threat")

computePhishingRiskScore(phishingFlags, lookalikeMatches, urlCount) ==
    LET hasUrgency == HasFlag(phishingFlags, "Urgency & pressure")
        hasCta == HasFlag(phishingFlags, "Call-to-action link")
        hasCredential == HasFlag(phishingFlags, "Credential request")
        hasPayment == HasFlag(phishingFlags, "Payment pressure")
        hasDataLossThreat == HasFlag(phishingFlags, "Data loss threat")
        score ==
            SumFlagWeights(phishingFlags)
            + SumMatchWeights(lookalikeMatches)
            + (IF hasUrgency /\ hasCta THEN 12 ELSE 0)
            + (IF hasCredential /\ hasCta THEN 15 ELSE 0)
            + (IF hasPayment /\ hasCta THEN 10 ELSE 0)
            + (IF Len(lookalikeMatches) > 0 /\ Len(phishingFlags) > 0 THEN 10 ELSE 0)
            + (IF urlCount >= 3 THEN 5 ELSE 0)
            + (IF hasUrgency /\ hasCta /\ (hasPayment \/ hasCredential) /\ hasDataLossThreat
               THEN 30 ELSE 0)
            + (IF HighSeverityCount(phishingFlags) >= 2 /\ hasCta THEN 18 ELSE 0)
    IN clamp(score, 0, 100)

PiiWeight == 18

ThirdPartyWeight == 8

TrackerWeight == 18

\* the triples (phishingScore, piiScore, privacyScore), among those with
\* piiScore = min(100, 18 k) and privacyScore = min(100, 8 a + 18 b), at which
\* the double phishingScore * 0.9 + piiScore * 0.07 + privacyScore * 0.03 lies
\* just below the exact value x.5, so that Math.round gives the integer below
DoubleShortfalls == {<<9, 54, 54>>, <<71, 54, 94>>}

\* the blend cut off at its integer part; the rounding of the heuristic
\* index (C18) must not hold of it
TruncatedHeuristicBlend(phishingScore, piiScore, privacyScore) ==
    (90 * phishingScore + 7 * piiScore + 3 * privacyScore) \div 100

\* Math.round(phishingScore * 0.9 + piiScore * 0.07 + privacyScore * 0.03)
RoundHeuristicBlend(phishingScore, piiScore, privacyScore) ==
    LET exact == RoundRatio(90 * phishingScore + 7 * piiScore + 3 * privacyScore, 100)
    IN IF <<phishingScore, piiScore, privacyScore>> \in DoubleShortfalls
       THEN exact - 1 ELSE exact

CriticalFloor == 97

\* the two indexes weighted alike; the weights of the fusion (C19) must not
\* hold of it
EvenModelBlend(heuristicIndex, modelIndex) ==
    RoundRatio(50 * heuristicIndex + 50 * modelIndex, 100)

\* Math.round(heuristicIndex * 0.55 + modelIndex * 0.45); the double and the
\* exact value round alike for all integers 0..100
RoundModelBlend(heuristicIndex, modelIndex) ==
    RoundRatio(55 * heuristicIndex + 45 * modelIndex, 100)

NoTextIndex == 28

\* a banding that never answers "High Risk"; the banding of the response (C7)
\* must not hold of it
toProtectVerdictFlat(score) == IF score >= 35 THEN "Medium Risk" ELSE "Low Risk"

toProtectVerdict(score) ==
    IF score >= 65 THEN "High Risk"
    ELSE IF score >= 35 THEN "Medium Risk"
    ELSE "Low Risk"

summarizeRiskLevel(score) ==
    IF score >= 70 THEN "High" ELSE IF score >= 40 THEN "Medium" ELSE "Low"


(***************************************************************************)
(* Output strings.  A hostname or a top-level domain inside a message is   *)
(* rendered by ToString, which is injective on sequences of characters.    *)
(***************************************************************************)
\* match.reason as the string the code builds
ReasonText(reason) ==
    IF reason.kind = "punycode" THEN "Punycode domain detected (possible homograph attack)."
    ELSE IF reason.kind = "raw-ip" THEN "URL uses a raw IP address instead of a domain."
    ELSE IF reason.kind = "risky-tld"
    THEN "Uncommon or high-risk top-level domain (." \o ToString(reason.tld) \o ")."
    ELSE IF reason.kind = "digits-or-hyphens"
    THEN "Domain contains digits or hyphens often used in lookalikes."
    ELSE IF reason.kind = "references"
    THEN "Domain references " \o reason.brand \o " but is not an official domain."
    ELSE "Domain looks similar to " \o reason.brand
         \o " (edit distance " \o ToString(reason.distance) \o ")."

\* a canonical URL as a string
UrlText(url) == url.scheme \o "://" \o ToString(url.host) \o url.path

buildProtectSummary(verdict, phishingFlagsCount, piiCount, trackersFound) ==
    verdict \o " signal based on scam and privacy heuristics."
    \o " "
    \o "Detected " \o ToString(phishingFlagsCount) \o " phishing indicator(s), "
    \o ToString(piiCount) \o " PII match(es), and "
    \o ToString(trackersFound) \o " tracker domain(s)."

\* detections.map((entry) => `${entry.type}:${entry.count}`).join(', ')
RECURSIVE PiiSummary(_)
PiiSummary(detections) ==
    IF detections = <<>> THEN ""
    ELSE Head(detections).type \o ":" \o ToString(Head(detections).count)
         \o (IF Len(detections) > 1 THEN ", " ELSE "")
         \o PiiSummary(Tail(detections))

\* values.slice(0, n)
Slice(values, n) == SubSeq(values, 1, IF Len(values) < n THEN Len(values) ELSE n)

HeuristicFindingsCap == 6

HeuristicFakePartsCap == 10

HeuristicActionsCap == 5

EvidenceCap == 8

buildProtectKeyFindings(phishingFlags, lookalikeMatches, detections, trackerAudit) ==
    LET findings ==
            (IF Len(phishingFlags) > 0
             THEN <<"Phishing heuristics flagged " \o ToString(Len(phishingFlags))
                    \o " suspicious pattern(s).">>
             ELSE <<>>)
            \o (IF Len(lookalikeMatches) > 0
                THEN <<"Detected " \o ToString(Len(lookalikeMatches))
                       \o " lookalike or suspicious URL signal(s).">>
                ELSE <<>>)
            \o (IF Len(detections) > 0
                THEN <<"PII patterns detected (" \o PiiSummary(detections) \o ").">>
                ELSE <<>>)
            \o (IF trackerAudit.trackersFound > 0
                THEN <<"Tracker audit matched " \o ToString(trackerAudit.trackersFound)
                       \o " tracker domain(s) across " \o ToString(trackerAudit.thirdPartyCount)
                       \o " third-party resource(s).">>
                ELSE <<>>)
    IN Slice(IF findings = <<>>
             THEN <<"No strong phishing, PII, or tracking indicators were detected.">>
             ELSE findings,
             HeuristicFindingsCap)

buildProtectFakeParts(phishingFlags, lookalikeMatches, detections) ==
    Slice([k \in 1..Len(phishingFlags) |->
              phishingFlags[k].type \o ": " \o phishingFlags[k].description]
          \o [k \in 1..Len(lookalikeMatches) |->
                 "URL " \o ToString(lookalikeMatches[k].hostname) \o " flagged: "
                 \o ReasonText(lookalikeMatches[k].reason)]
          \o [k \in 1..Len(detections) |->
                 "PII exposure risk: " \o detections[k].type \o " detected "
                 \o ToString(detections[k].count) \o " time(s)."],
          HeuristicFakePartsCap)

buildProtectRecommendedActions(score, lookalikeMatches, detections, trackerAudit) ==
    LET actions ==
            (IF score >= 65
             THEN <<"Avoid clicking links or sharing credentials until the source is independently verified.">>
             ELSE <<>>)
            \o (IF Len(lookalikeMatches) > 0
                THEN <<"Verify suspicious domains manually by navigating to official sites directly.">>
                ELSE <<>>)
            \o (IF Len(detections) > 0
                THEN <<"Redact personal data and avoid sending sensitive identifiers in messages or forms.">>
                ELSE <<>>)
            \o (IF trackerAudit.trackersFound > 0
                THEN <<"Use privacy-focused browsing settings or tracker blocking extensions on risky pages.">>
                ELSE <<>>)
    IN Slice(IF actions = <<>>
             THEN <<"Continue monitoring the source and re-scan if new content appears.">>
             ELSE actions,
             HeuristicActionsCap)

buildProtectEvidenceSources(lookalikeMatches, trackerAudit) ==
    LET fromMatches ==
            [k \in 1..Len(lookalikeMatches) |->
                [title |-> "Suspicious domain: " \o ToString(lookalikeMatches[k].hostname),
                 url |-> UrlText(lookalikeMatches[k].url),
                 snippet |-> ReasonText(lookalikeMatches[k].reason)]]
        fromTrackers ==
            [k \in 1..Len(trackerAudit.trackerMatches) |->
                [title |-> "Tracker detected: "
                           \o ToString(trackerAudit.trackerMatches[k].trackerDomain),
                 url |-> UrlText(trackerAudit.trackerMatches[k].resourceUrl),
                 snippet |-> "Loaded third-party resource from "
                             \o ToString(trackerAudit.trackerMatches[k].hostname) \o "."]]
    IN IF Len(fromMatches) >= EvidenceCap THEN Slice(fromMatches, EvidenceCap)
       ELSE Slice(fromMatches \o fromTrackers, EvidenceCap)

\* strings that differ from their lower-case form only by a listed pair; every
\* other string of the model is the only one with its lower-case form
LowerCaseTable ==
    [s \in {"No Strong Phishing, PII, or Tracking Indicators Were Detected.",
            "No strong phishing, PII, or tracking indicators were detected."} |->
        "no strong phishing, pii, or tracking indicators were detected."]

\* value.toLowerCase(), up to a renaming that keeps equality
LowerCaseOf(value) ==
    IF value \in DOMAIN LowerCaseTable THEN LowerCaseTable[value] ELSE value

\* strings with surrounding white space, and what trim() leaves of them
TrimTable ==
    [s \in {"  ", " model finding 1 "} |-> IF s = "  " THEN "" ELSE "model finding 1"]

\* value.trim()
Trim(value) == IF value \in DOMAIN TrimTable THEN TrimTable[value] ELSE value

\* the loop of mergeUniqueStrings from position k on
RECURSIVE MergeStringsFrom(_, _, _, _)
MergeStringsFrom(values, k, merged, maxItems) ==
    IF k > Len(values) THEN merged
    ELSE LET normalized == Trim(values[k])
             pushed == IF \E m \in 1..Len(merged) :
                              LowerCaseOf(merged[m]) = LowerCaseOf(normalized)
                       THEN merged ELSE Append(merged, normalized)
         IN IF normalized = "" THEN MergeStringsFrom(values, k + 1, merged, maxItems)
            ELSE IF Len(pushed) >= maxItems THEN pushed
            ELSE MergeStringsFrom(values, k + 1, pushed, maxItems)

mergeUniqueStrings(primary, secondary, maxItems) ==
    MergeStringsFrom(primary \o secondary, 1, <<>>, maxItems)

\* the loop of mergeEvidenceSources from position k on
RECURSIVE MergeEvidenceFrom(_, _, _)
MergeEvidenceFrom(sources, k, merged) ==
    IF k > Len(sources) THEN merged
    ELSE LET title == Trim(sources[k].title)
             url == Trim(sources[k].url)
             snippet == Trim(sources[k].snippet)
             pushed == IF \E m \in 1..Len(merged) : merged[m].url = url
                       THEN merged
                       ELSE Append(merged, [title |-> title, url |-> url, snippet |-> snippet])
         IN IF title = "" \/ url = "" \/ snippet = ""
            THEN MergeEvidenceFrom(sources, k + 1, merged)
            ELSE IF Len(pushed) >= EvidenceCap THEN pushed
            ELSE MergeEvidenceFrom(sources, k + 1, pushed)

mergeEvidenceSources(primary, secondary) == MergeEvidenceFrom(primary \o secondary, 1, <<>>)


(***************************************************************************)
(* lib/gemini.ts.  An HTTP exchange ends in a response [kind, status,      *)
(* message, payload]: kind "ok" (a 2xx answer carrying payload), "http" (a *)
(* non-2xx answer with its status and error message), "abort" (the timer   *)
(* aborted the fetch) or "network" (fetch rejected with a TypeError).  A   *)
(* payload is [modelText, raw, grounding]: modelText says what the text of *)
(* the first candidate with text is, "none" (no candidate has text),       *)
(* "json" (a JSON object, given by raw), "null" (the JSON literal null) or *)
(* "garbage" (not JSON); grounding lists the web chunks of candidates[0]   *)
(* as [uri, title, snippet], "" for a missing field.  A raw number is      *)
(* [finite, tenths]: whether Number(value) is finite, and ten times it.    *)
(* A thrown error is [class, status, message].                             *)
(***************************************************************************)
DEFAULT_MODEL == "gemini-1.5-flash"

MaxScore == 100

sanitizeScore(value) ==
    IF ~value.finite THEN 0
    ELSE LET rounded == RoundRatio(value.tenths, 10)
             atMost == IF rounded < MaxScore THEN rounded ELSE MaxScore
         IN IF atMost > 0 THEN atMost ELSE 0

StringArrayCap == 12

IsNonEmptyString(s) == s # ""

sanitizeStringArray(value) ==
    Slice(SelectSeq([k \in 1..Len(value) |-> Trim(value[k])], IsNonEmptyString), StringArrayCap)

IsCompleteEvidence(item) == item.title # "" /\ item.url # "" /\ item.snippet # ""

sanitizeEvidence(value) ==
    Slice(SelectSeq([k \in 1..Len(value) |->
                        [title |-> Trim(value[k].title), url |-> Trim(value[k].url),
                         snippet |-> Trim(value[k].snippet)]],
                    IsCompleteEvidence),
          EvidenceCap)

HasUri(chunk) == Trim(chunk.uri) # ""

\* the loop that keeps the first source of every url, up to the cap
RECURSIVE DedupeGrounded(_, _, _)
DedupeGrounded(grounded, k, deduped) ==
    IF k > Len(grounded) THEN deduped
    ELSE LET pushed == IF \E m \in 1..Len(deduped) : deduped[m].url = grounded[k].url
                       THEN deduped ELSE Append(deduped, grounded[k])
         IN IF Len(pushed) >= EvidenceCap THEN pushed
            ELSE DedupeGrounded(grounded, k + 1, pushed)

sanitizeGroundedEvidence(grounding) ==
    LET chunks == SelectSeq(grounding, HasUri)
        grounded ==
            [k \in 1..Len(chunks) |->
                [title |-> IF Trim(chunks[k].title) # "" THEN Trim(chunks[k].title)
                           ELSE "Grounded Web Source",
                 url |-> Trim(chunks[k].uri),
                 snippet |-> IF Trim(chunks[k].snippet) # "" THEN Trim(chunks[k].snippet)
                             ELSE "Grounded source retrieved for this analysis."]]
    IN DedupeGrounded(grounded, 1, <<>>)

parseModelText(payload) == payload.modelText

\* normalizeResult for mode 'protect'
normalizeResult(raw, payload, inputType, model) ==
    LET veracityIndex == sanitizeScore(raw.veracityIndex)
        groundedEvidence == sanitizeGroundedEvidence(payload.grounding)
        modelEvidence == sanitizeEvidence(raw.evidenceSources)
    IN [inputType |-> inputType,
        veracityIndex |-> veracityIndex,
        verdict |-> IF Trim(raw.verdict) # "" THEN Trim(raw.verdict)
                    ELSE IF veracityIndex >= 65 THEN "High Risk"
                    ELSE IF veracityIndex >= 35 THEN "Medium Risk"
                    ELSE "Low Risk",
        summary |-> Trim(raw.summary),
        extractedText |-> raw.extractedText,
        keyFindings |-> sanitizeStringArray(raw.keyFindings),
        fakeParts |-> sanitizeStringArray(raw.fakeParts),
        recommendedActions |-> sanitizeStringArray(raw.recommendedActions),
        evidenceSources |-> IF Len(groundedEvidence) > 0 THEN groundedEvidence
                            ELSE modelEvidence,
        model |-> model]

FallbackScore == 55

\* truncate(content.replace(/\s+/g, ' ').trim(), 220) of the request content
ShortInput(content) ==
    IF content.kind = "image" THEN "data:image/png;base64,..."
    ELSE IF content.kind = "absent" THEN ""
    ELSE "the analyzed content"

\* buildFallbackResult for mode 'protect'
buildFallbackResult(inputType, content, model, grounding) ==
    LET groundedEvidence == sanitizeGroundedEvidence(grounding)
        shortInput == ShortInput(content)
    IN [inputType |-> inputType,
        veracityIndex |-> FallbackScore,
        verdict |-> "Medium Risk",
        summary |->
            IF Len(groundedEvidence) > 0
            THEN "Automated analysis returned no direct model text. Result is based on grounded web evidence and conservative fallback scoring."
            ELSE "Automated analysis returned no direct model text and no grounded evidence. Marking as unverified to avoid false confidence.",
        extractedText |-> EmptyText,
        keyFindings |->
            <<"Gemini returned an empty text output for this request.",
              IF Len(groundedEvidence) > 0
              THEN "Grounding provided " \o ToString(Len(groundedEvidence))
                   \o " web source(s), but no final textual conclusion was generated."
              ELSE "No grounding sources were returned for this request.">>,
        fakeParts |->
            IF shortInput # ""
            THEN <<"Claim under review: \"" \o shortInput \o "\"">>
            ELSE <<"Input could not be summarized from the request payload.">>,
        recommendedActions |->
            <<"Re-run analysis in a few moments to fetch a full model response.",
              "Do not act on urgent requests until the sender/site is independently verified.",
              "Use trusted official channels before sharing personal information.">>,
        evidenceSources |-> groundedEvidence,
        model |-> model]

NoError == [class |-> "", status |-> 0, message |-> ""]

GeminiRequestError(status, message) ==
    [class |-> "GeminiRequestError", status |-> status, message |-> message]

\* the TypeError of a rejected fetch or of a property read on null
TypeError(message) == [class |-> "TypeError", status |-> 0, message |-> message]

NoPayload == [modelText |-> "none", raw |-> <<>>, grounding |-> <<>>]

NoResult == [inputType |-> ""]

Returned(result) == [outcome |-> "return", result |-> result, error |-> NoError]

Thrown(error) == [outcome |-> "throw", result |-> NoResult, error |-> error]

\* error messages of the API that name the search tool
ToolMessages ==
    {"Unknown name \"google_search\" at 'tools[0]': Cannot find field."}

\* lowerMessage.includes('google_search') || lowerMessage.includes('unknown name')
NamesSearchTool(message) == message \in ToolMessages

\* the try block from the parsed payload on
FromPayload(inputType, content, model, payload) ==
    IF parseModelText(payload) = "none"
    THEN Returned(buildFallbackResult(inputType, content, model, payload.grounding))
    ELSE IF parseModelText(payload) = "garbage"
    THEN Thrown(GeminiRequestError(502, "Gemini returned malformed JSON."))
    ELSE IF parseModelText(payload) = "null"
    THEN Thrown(TypeError("Cannot read properties of null (reading 'veracityIndex')"))
    ELSE Returned(normalizeResult(payload.raw, payload, inputType, model))

\* analyzeInputWithGemini for mode 'protect': apiKey says whether GEMINI_API_KEY
\* is set; first, retry and noTool are the responses of the request with
\* google_search, of the one with google_search_retrieval and of the one
\* without tools, each read only if that request is made
analyzeInputWithGemini(inputType, content, apiKey, first, retry, noTool) ==
    LET model == DEFAULT_MODEL
        aborted == Returned(buildFallbackResult(inputType, content, model, <<>>))
        retried == first.kind = "http" /\ first.status = 400 /\ NamesSearchTool(first.message)
        requestResult == IF retried THEN retry ELSE first
        status == IF requestResult.status >= 500 THEN 502 ELSE requestResult.status
        payload == requestResult.payload
    IN IF content.kind = "absent"
       THEN Thrown(GeminiRequestError(400, "Missing analysis content."))
       ELSE IF ~apiKey
       THEN Thrown(GeminiRequestError(500, "Missing GEMINI_API_KEY for analysis."))
       ELSE IF inputType = "image" /\ ~(content.kind = "image" /\ content.data = "ok")
       THEN Thrown(GeminiRequestError(400, "Image content must be a valid base64 data URL."))
       ELSE IF requestResult.kind = "abort" THEN aborted
       ELSE IF requestResult.kind = "network" THEN Thrown(TypeError("fetch failed"))
       ELSE IF requestResult.kind = "http"
       THEN Thrown(GeminiRequestError(status, requestResult.message))
       ELSE IF parseModelText(payload) # "none"
       THEN FromPayload(inputType, content, model, payload)
       ELSE IF noTool.kind = "abort" THEN aborted
       ELSE IF noTool.kind = "network" THEN Thrown(TypeError("fetch failed"))
       ELSE IF noTool.kind = "ok" THEN FromPayload(inputType, content, model, noTool.payload)
       ELSE FromPayload(inputType, content, model, payload)

(***************************************************************************)
(* lib/openai.ts.  The payload of an OCR response is the text of           *)
(* choices[0].message.content, EmptyText when it is missing or blank.      *)
(***************************************************************************)
OpenAIRequestError(status, message) ==
    [class |-> "OpenAIRequestError", status |-> status, message |-> message]

\* requestChatCompletion: apiKey says whether OPENAI_API_KEY is set
requestChatCompletion(apiKey, response) ==
    IF ~apiKey
    THEN Thrown(OpenAIRequestError(500, "Missing OPENAI_API_KEY for OpenAI requests."))
    ELSE IF response.kind = "http"
    THEN Thrown(OpenAIRequestError(IF response.status >= 500 THEN 502 ELSE response.status,
                                   "OpenAI request failed."))
    ELSE IF response.kind = "abort"
    THEN Thrown(OpenAIRequestError(504, "OpenAI request timed out."))
    ELSE IF response.kind = "network" THEN Thrown(TypeError("fetch failed"))
    ELSE Returned(response.payload)

extractTextFromImage(dataUrl, apiKey, response) ==
    IF dataUrl.kind = "absent"
    THEN Thrown(OpenAIRequestError(400, "Missing image data URL."))
    ELSE requestChatCompletion(apiKey, response)


(***************************************************************************)
(* Inputs of handleProtect: request bodies, the environment, and what the  *)
(* OCR and the model services answer.                                      *)
(***************************************************************************)
RawPaypa1 ==
    [prefix |-> "https://", host |-> <<"p","a","y","p","a","1",".","c","o","m">>,
     path |-> "/login"]

RawShop ==
    [prefix |-> "", host |-> <<"w","w","w",".","e","x","a","m","p","l","e",".","c","o","m">>,
     path |-> ""]

RawAnalytics ==
    [prefix |-> "https://",
     host |-> <<"w","w","w",".","g","o","o","g","l","e","-","a","n","a","l","y","t","i","c","s",".","c","o","m">>,
     path |-> "/collect"]

RawNotUrl ==
    [prefix |-> "", host |-> <<"n","o","t"," ","a"," ","u","r","l">>, path |-> ""]

PiiTexts ==
    {<<>>,
     <<"h","i">>,
     <<"j","o","h","n",".","d","o","e","@","e","x","a","m","p","l","e",".","c","o","m",
       " ","5","5","5","-","1","2","3","-","4","5","6","7">>}

TextInputs ==
    {[phrases |-> p, urls |-> u, pii |-> c] :
        p \in SUBSET Vocabulary, u \in {<<>>, <<RawPaypa1>>}, c \in PiiTexts}

CriticalText ==
    [phrases |-> {"immediately", "click here", "password", "to prevent data loss"},
     urls |-> <<>>, pii |-> <<>>]

PlainText == [phrases |-> {}, urls |-> <<>>, pii |-> <<"h","i">>]

LinkText == [phrases |-> {"click here"}, urls |-> <<RawPaypa1>>, pii |-> <<>>]

NoContent == [kind |-> "absent", text |-> EmptyText, data |-> ""]

TextContent(text) ==
    IF IsEmptyText(text) THEN NoContent ELSE [kind |-> "text", text |-> text, data |-> ""]

ImageContent(data) == [kind |-> "image", text |-> EmptyText, data |-> data]

UrlContent(raw) ==
    [kind |-> "url", text |-> [phrases |-> {}, urls |-> <<raw>>, pii |-> <<>>], data |-> ""]

Body(inputType, content, url, pageUrl, resources) ==
    [inputType |-> inputType, content |-> content, url |-> url, pageUrl |-> pageUrl,
     resources |-> resources]

\* body.inputType as sent: a valid type, or "" for an absent or unknown one
InputTypes == {"text", "url", "image", ""}

BodyInputs ==
    {Body("text", TextContent(t), NoRaw, NoRaw, <<>>) : t \in TextInputs}
    \cup {Body(i, c, NoRaw, NoRaw, <<>>) :
            i \in InputTypes,
            c \in {NoContent, TextContent(CriticalText), TextContent(PlainText),
                   UrlContent(RawPaypa1), UrlContent(RawShop), UrlContent(RawNotUrl),
                   ImageContent("ok"), ImageContent("empty")}}
    \cup {Body(i, c, u, p, r) :
            i \in {"text", "url"},
            c \in {NoContent, TextContent(LinkText)},
            u \in {NoRaw, RawShop},
            p \in {NoRaw, RawShop, RawNotUrl},
            r \in {<<>>, <<RawAnalytics>>, <<RawShop, RawAnalytics, RawNotUrl, RawAnalytics>>}}
    \cup {Body("image", ImageContent("ok"), RawPaypa1, NoRaw, <<RawAnalytics>>)}

TrackerFiles ==
    {[state |-> "missing", items |-> <<>>],
     [state |-> "array",
      items |-> <<[domain |-> <<"h","t","t","p","s",":","/","/","w","w","w",".","T","r","a","c","k","e","r",".","e","x","a","m","p","l","e","/","p","a","t","h">>,
                   owner |-> "Acme", category |-> "advertising"]>>]}

NoResponse == [kind |-> "", status |-> 0, message |-> "", payload |-> NoPayload]

Ok(payload) == [kind |-> "ok", status |-> 200, message |-> "", payload |-> payload]

HttpError(status, message) ==
    [kind |-> "http", status |-> status, message |-> message, payload |-> NoPayload]

Abort == [kind |-> "abort", status |-> 0, message |-> "", payload |-> NoPayload]

NetworkFailure == [kind |-> "network", status |-> 0, message |-> "", payload |-> NoPayload]

OcrResponses ==
    {Ok(t) : t \in {EmptyText, CriticalText, PlainText, LinkText}}
    \cup {HttpError(400, ""), HttpError(429, ""), HttpError(500, ""), Abort, NetworkFailure}

RawScores ==
    {[finite |-> FALSE, tenths |-> 0], [finite |-> TRUE, tenths |-> -15],
     [finite |-> TRUE, tenths |-> 0], [finite |-> TRUE, tenths |-> 4],
     [finite |-> TRUE, tenths |-> 400], [finite |-> TRUE, tenths |-> 995],
     [finite |-> TRUE, tenths |-> 1500]}

MaxModelItems == 13

ModelStrings(stem, n) == [k \in 1..n |-> stem \o " " \o ToString(k)]

ModelEvidence(n) ==
    [k \in 1..n |-> [title |-> "Reference " \o ToString(k),
                     url |-> "https://ref.example/" \o ToString(k),
                     snippet |-> "Reported as a scam."]]

NoLists ==
    [keyFindings |-> <<>>, fakeParts |-> <<>>, recommendedActions |-> <<>>,
     evidenceSources |-> <<>>]

RawLists ==
    {NoLists,
     [keyFindings |-> ModelStrings("model finding", MaxModelItems),
      fakeParts |-> ModelStrings("model fake part", MaxModelItems),
      recommendedActions |-> ModelStrings("model action", MaxModelItems),
      evidenceSources |-> ModelEvidence(MaxModelItems)],
     [NoLists EXCEPT !.keyFindings =
         <<"No Strong Phishing, PII, or Tracking Indicators Were Detected.",
           " model finding 1 ", "model finding 1", "  ">>],
     [NoLists EXCEPT !.recommendedActions = ModelStrings("model action", MaxModelItems)]}

RawWords ==
    {[summary |-> "", verdict |-> ""],
     [summary |-> "The message pressures the reader to act.", verdict |-> "Low Risk"]}

RawResponses ==
    {[veracityIndex |-> s, verdict |-> w.verdict, summary |-> w.summary,
      extractedText |-> t, keyFindings |-> l.keyFindings, fakeParts |-> l.fakeParts,
      recommendedActions |-> l.recommendedActions, evidenceSources |-> l.evidenceSources] :
        s \in RawScores, w \in RawWords, t \in {EmptyText, CriticalText, PlainText},
        l \in RawLists}

Grounding ==
    <<[uri |-> "https://news.example/a", title |-> "", snippet |-> ""],
      [uri |-> "", title |-> "No address", snippet |-> "text"],
      [uri |-> "https://news.example/a", title |-> "Again", snippet |-> "text"]>>

ToolMessage == "Unknown name \"google_search\" at 'tools[0]': Cannot find field."

FirstResponses ==
    {Ok([modelText |-> "json", raw |-> r, grounding |-> <<>>]) : r \in RawResponses}
    \cup {Ok([NoPayload EXCEPT !.grounding = g]) : g \in {<<>>, Grounding}}
    \cup {Ok([NoPayload EXCEPT !.modelText = m]) : m \in {"null", "garbage"}}
    \cup {HttpError(400, ToolMessage), HttpError(400, "Invalid argument."),
          HttpError(429, "Quota exceeded."), HttpError(500, "Internal error."),
          HttpError(503, "Overloaded."), Abort, NetworkFailure}

SomeRaw ==
    [veracityIndex |-> [finite |-> TRUE, tenths |-> 880], verdict |-> "",
     summary |-> "Likely credential phishing.", extractedText |-> CriticalText,
     keyFindings |-> <<"model finding 1">>, fakeParts |-> <<>>,
     recommendedActions |-> <<>>, evidenceSources |-> <<>>]

LaterResponses ==
    {Ok([modelText |-> "json", raw |-> SomeRaw, grounding |-> Grounding]), Ok(NoPayload),
     HttpError(429, "Quota exceeded."), HttpError(500, "Internal error."),
     Abort, NetworkFailure}


(***************************************************************************)
(* handleProtect.                                                          *)
(***************************************************************************)
\* the valid input type, or "" for null
normalizeInputType(value) == IF value \in {"text", "url", "image"} THEN value ELSE ""

\* normalizeInputType(body.inputType) ?? 'text'
InputTypeOf(b) == IF normalizeInputType(b.inputType) = "" THEN "text" ELSE normalizeInputType(b.inputType)

\* inputType === 'image' && IMAGE_DATA_URL_REGEX.test(rawContent)
HasImagePayload(b) == InputTypeOf(b) = "image" /\ IsImageDataUrl(readRawContent(b))

NoModelResult == NoResult

hasModelSignal(result) ==
    /\ result # NoModelResult
    /\ \/ result.veracityIndex > 0
       \/ Len(result.summary) > 0
       \/ Len(result.keyFindings) > 0
       \/ Len(result.fakeParts) > 0
       \/ Len(result.evidenceSources) > 0

\* maskedText: the text with the scanned characters as the masker rewrote them
MaskedText(t, pii) == [t EXCEPT !.pii = pii.maskedText]

ModelLists(result) == IF result = NoModelResult THEN NoLists ELSE result

\* res.status(status).json(body)
Sent(status, json) == [status |-> status, json |-> json]

NotSent == Sent(0, [status |-> ""])

\* lines 1114-1125: the URLs of the request and what the four analyzers find
ProtectFindingsOf(b, t, file, urls, resourceUrls) ==
    [urls |-> urls,
     resourceUrls |-> resourceUrls,
     phishingFlags |-> buildPhishingFlags(t),
     lookalikeMatches |-> buildLookalikeMatches(urls),
     pii |-> detectAndMaskPii(t.pii),
     trackerAudit |->
        buildTrackerAudit(resolvePrimaryUrl(b, IF Len(urls) > 0 THEN urls ELSE resourceUrls),
                          resourceUrls, file)]

ProtectFindings(b, t, file) ==
    ProtectFindingsOf(b, t, file, collectUrls(b, t), collectResourceUrls(b, t))

\* line 1118 without its last conjunct; the rejection of exactly the requests
\* with nothing to check (C12) must not hold of it
IsRejectedWithImage(b, t, found) ==
    IsEmptyText(t) /\ Len(found.urls) = 0 /\ Len(found.resourceUrls) = 0

\* line 1118: the request carries nothing to check
IsRejected(b, t, found) ==
    IsEmptyText(t) /\ Len(found.urls) = 0 /\ Len(found.resourceUrls) = 0 /\ ~HasImagePayload(b)

\* lines 1127-1129
ProtectScores(found) ==
    [phishingScore |->
        computePhishingRiskScore(found.phishingFlags, found.lookalikeMatches, Len(found.urls)),
     piiScore |-> clamp(found.pii.totalCount * PiiWeight, 0, 100),
     privacyScore |-> clamp(found.trackerAudit.thirdPartyCount * ThirdPartyWeight
                            + found.trackerAudit.trackersFound * TrackerWeight, 0, 100)]

\* lines 1130-1134
HeuristicIndexBase(scores) ==
    clamp(RoundHeuristicBlend(scores.phishingScore, scores.piiScore, scores.privacyScore),
          0, 100)

\* Math.max(heuristicIndex, 97)
AtLeastCriticalFloor(index) == IF index < CriticalFloor THEN CriticalFloor ELSE index

\* lines 1136-1139
HeuristicIndex(found, scores) ==
    IF hasCriticalScamPattern(found.phishingFlags)
    THEN AtLeastCriticalFloor(HeuristicIndexBase(scores))
    ELSE HeuristicIndexBase(scores)

\* lines 1151-1159 without the branch that lifts a bare zero; the index of a
\* response without model signal (C6) must not hold of it
FinalIndexBareZero(b, t, result, heuristicIndex) ==
    IF hasModelSignal(result)
    THEN clamp(RoundModelBlend(heuristicIndex, result.veracityIndex), 0, 100)
    ELSE IF HasImagePayload(b) /\ IsEmptyText(t) THEN NoTextIndex
    ELSE heuristicIndex

\* lines 1151-1159
FinalIndex(b, t, result, heuristicIndex) ==
    IF hasModelSignal(result)
    THEN clamp(RoundModelBlend(heuristicIndex, result.veracityIndex), 0, 100)
    ELSE IF HasImagePayload(b) /\ IsEmptyText(t) THEN NoTextIndex
    ELSE IF heuristicIndex = 0 THEN (IF InputTypeOf(b) = "url" THEN 1 ELSE 2)
    ELSE heuristicIndex

\* hasImagePayload && !text && !hasModelSignal
IsUnreadable(b, t, result) == HasImagePayload(b) /\ IsEmptyText(t) /\ ~hasModelSignal(result)

KeyFindingsCap == 8

FakePartsCap == 12

RecommendedActionsCap == 6

\* lines 1161-1248: the data of the success response
ProtectData(b, t, result, warning, found, scores, veracityIndex) ==
    [mode |-> "protect",
     inputType |-> InputTypeOf(b),
     veracityIndex |-> veracityIndex,
     verdict |-> toProtectVerdict(veracityIndex),
     summary |->
        IF hasModelSignal(result) /\ Len(result.summary) > 0 THEN result.summary
        ELSE IF IsUnreadable(b, t, result)
        THEN "Image text extraction was incomplete. Returning a cautionary risk score pending clearer input."
        ELSE buildProtectSummary(toProtectVerdict(veracityIndex), Len(found.phishingFlags),
                                 found.pii.totalCount, found.trackerAudit.trackersFound),
     extractedText |-> IF IsEmptyText(MaskedText(t, found.pii)) THEN t
                       ELSE MaskedText(t, found.pii),
     keyFindings |->
        (IF IsUnreadable(b, t, result)
         THEN <<"Unable to extract readable text from the uploaded image for a full scam analysis.">>
         ELSE <<>>)
        \o mergeUniqueStrings(
               buildProtectKeyFindings(found.phishingFlags, found.lookalikeMatches,
                                       found.pii.detections, found.trackerAudit),
               ModelLists(result).keyFindings, KeyFindingsCap)
        \o (IF warning # "" THEN <<"Model fallback used due to timeout: " \o warning>>
            ELSE <<>>),
     fakeParts |->
        (IF IsUnreadable(b, t, result)
         THEN <<"Unable to extract readable text from the uploaded image; suspicious phrases could not be evaluated.">>
         ELSE <<>>)
        \o mergeUniqueStrings(
               buildProtectFakeParts(found.phishingFlags, found.lookalikeMatches,
                                     found.pii.detections),
               ModelLists(result).fakeParts, FakePartsCap),
     recommendedActions |->
        (IF IsUnreadable(b, t, result)
         THEN <<"Retry with a clearer screenshot or paste the suspicious text directly.">>
         ELSE <<>>)
        \o mergeUniqueStrings(
               buildProtectRecommendedActions(veracityIndex, found.lookalikeMatches,
                                              found.pii.detections, found.trackerAudit),
               ModelLists(result).recommendedActions, RecommendedActionsCap),
     evidenceSources |->
        mergeEvidenceSources(
            buildProtectEvidenceSources(found.lookalikeMatches, found.trackerAudit),
            ModelLists(result).evidenceSources),
     model |-> IF result # NoModelResult
               THEN result.model \o "+protect-heuristics-v2"
               ELSE "protect-heuristics-v2",
     phishingRisk |-> [score |-> scores.phishingScore,
                       level |-> summarizeRiskLevel(scores.phishingScore),
                       flags |-> found.phishingFlags,
                       lookalikeMatches |-> found.lookalikeMatches],
     piiRisk |-> [score |-> scores.piiScore,
                  level |-> summarizeRiskLevel(scores.piiScore),
                  detections |-> found.pii.detections,
                  maskedText |-> MaskedText(t, found.pii)],
     privacyRisk |-> [score |-> scores.privacyScore,
                      level |-> summarizeRiskLevel(scores.privacyScore),
                      primaryDomain |-> found.trackerAudit.primaryDomain,
                      thirdPartyCount |-> found.trackerAudit.thirdPartyCount,
                      trackersFound |-> found.trackerAudit.trackersFound,
                      thirdPartyResources |-> found.trackerAudit.thirdPartyResources,
                      trackerMatches |-> found.trackerAudit.trackerMatches],
     analyzed |-> [urlCount |-> Len(found.urls), resourceCount |-> Len(found.resourceUrls)]]

\* the response of lines 1118-1120 and 1249-1253, or of lines 1205-1248
ProtectResponse(b, t, result, warning, found, scores, heuristicIndex) ==
    IF IsRejected(b, t, found)
    THEN Sent(400, [status |-> "error",
                    message |-> "Provide text, URL, or resource list for protection checks."])
    ELSE Sent(200, [status |-> "success",
                    data |-> ProtectData(b, t, result, warning, found, scores,
                                         FinalIndex(b, t, result, heuristicIndex))])

ScoredResponse(b, t, result, warning, found, scores) ==
    ProtectResponse(b, t, result, warning, found, scores, HeuristicIndex(found, scores))

FoundResponse(b, t, result, warning, found) ==
    ScoredResponse(b, t, result, warning, found, ProtectScores(found))

\* lines 1114-1248 of the handler: everything it does after the OCR and model
\* calls, up to the response it sends
ProtectAnalysis(b, t, result, warning, file) ==
    FoundResponse(b, t, result, warning, ProtectFindings(b, t, file))

NoCall == [apiKey |-> FALSE, first |-> NoResponse, retry |-> NoResponse, noTool |-> NoResponse]

Analyzers == {"buildPhishingFlags", "buildLookalikeMatches", "detectAndMaskPii", "buildTrackerAudit"}

\* lines 1114-1125: the analyzers the handler calls; the rejection of line
\* 1118 is thrown before the first of them
AnalyzersRunAfter(b, t, urls, resourceUrls) ==
    IF IsRejected(b, t, [urls |-> urls, resourceUrls |-> resourceUrls]) THEN {} ELSE Analyzers

AnalyzersRun(b, t) == AnalyzersRunAfter(b, t, collectUrls(b, t), collectResourceUrls(b, t))

VARIABLES
    pc,             \* where the handler is: "idle", "ocr", "model", "analyze", "done"
    useGemini,      \* USE_GEMINI_PROTECT_MODEL
    trackerFile,    \* the tracker directory file on disk
    body,           \* req.body
    text,           \* the handler's text
    modelResult,    \* the handler's modelResult, NoModelResult for null
    modelWarning,   \* the handler's modelWarning, "" for null
    ocrCall,        \* what the OCR call met: the key and the response it read
    modelCall,      \* what the model call met: the key and the responses it read
    response,       \* what res has sent
    analyzersRun,   \* the analyzers the handler has called
    responsesSent,  \* how many times the handler has called res.status(...).json(...)
    piiPc,          \* where the masking run is: "idle", "input", "masked", "remasked"
    piiText,        \* the text given to detectAndMaskPii
    piiFirst,       \* the result of detectAndMaskPii(piiText)
    piiSecond,      \* the result of detectAndMaskPii on the first maskedText
    unitCall,       \* an analyzer applied on its own: its name and arguments
    unitResult,     \* what that analyzer returned
    inFlight,       \* two requests handled concurrently: the locals of each
    scan,           \* a run of the extension's runScanPipeline
    geminiRun,      \* a call of analyzeInputWithGemini followed request by request
    sidebar         \* the extension's sidebar: its flags, timers and scans

vars ==
    <<pc, useGemini, trackerFile, body, text, modelResult, modelWarning, ocrCall, modelCall,
      response, analyzersRun, responsesSent, piiPc, piiText, piiFirst, piiSecond, unitCall,
      unitResult, inFlight, scan, geminiRun, sidebar>>

handlerVars ==
    <<pc, useGemini, trackerFile, body, text, modelResult, modelWarning, ocrCall, modelCall,
      response, analyzersRun, responsesSent>>

piiVars == <<piiPc, piiText, piiFirst, piiSecond>>

unitVars == <<unitCall, unitResult>>

runVars == <<scan, geminiRun, sidebar>>

NoPii == [maskedText |-> <<>>, detections |-> <<>>, totalCount |-> 0]

HandlerIdle ==
    /\ pc = "idle"
    /\ body = Body("", NoContent, NoRaw, NoRaw, <<>>)
    /\ text = EmptyText
    /\ modelResult = NoModelResult
    /\ modelWarning = ""
    /\ ocrCall = NoCall
    /\ modelCall = NoCall
    /\ response = NotSent
    /\ analyzersRun = {}
    /\ responsesSent = 0

PiiIdle ==
    /\ piiPc = "idle"
    /\ piiText = <<>>
    /\ piiFirst = NoPii
    /\ piiSecond = NoPii

NoUnitCall == [fn |-> ""]

UnitIdle ==
    /\ unitCall = NoUnitCall
    /\ unitResult = <<>>

PairIdle == inFlight = <<>>

NoRun == [pc |-> "idle"]

RunIdle ==
    /\ scan = NoRun
    /\ geminiRun = NoRun
    /\ sidebar = NoRun

Init ==
    /\ useGemini \in BOOLEAN
    /\ trackerFile \in TrackerFiles
    /\ HandlerIdle
    /\ PiiIdle
    /\ UnitIdle
    /\ PairIdle
    /\ RunIdle

ProtectError(status, message) == [class |-> "ProtectError", status |-> status, message |-> message]

\* the catch block with the return after its first response left out: a
\* ProtectError is answered twice; one response per request (C27) must not
\* hold of it
CaughtWithoutReturn(error, sent) == IF error.class = "ProtectError" THEN sent + 2 ELSE sent + 1

\* lines 1249-1257, the catch block of the handler: the responses sent once
\* it has answered the error, a ProtectError with its own status and any
\* other error with 500
Caught(error, sent) == IF error.class = "ProtectError" THEN sent + 1 ELSE sent + 1

\* lines 1065-1072: the request arrives
Receive(b) ==
    /\ pc = "idle"
    /\ body' = b
    /\ text' = readTextFromBody(b)
    /\ pc' = IF HasImagePayload(b) THEN "ocr" ELSE "analyze"
    /\ UNCHANGED <<useGemini, trackerFile, modelResult, modelWarning, ocrCall, modelCall,
                   response, analyzersRun, responsesSent>>
    /\ UNCHANGED <<piiVars, unitVars, inFlight, runVars>>

\* lines 1074-1089: the OCR call returns or throws
Ocr(apiKey, ocrResponse) ==
    /\ pc = "ocr"
    /\ LET ocr == extractTextFromImage(readRawContent(body), apiKey, ocrResponse)
           ocrText == IF ocr.outcome = "return" /\ ~IsEmptyText(ocr.result)
                      THEN ocr.result ELSE text
       IN /\ text' = ocrText
          /\ modelWarning' = IF ocr.outcome = "throw"
                             THEN "OCR unavailable: " \o ocr.error.message
                             ELSE modelWarning
          /\ pc' = IF useGemini \/ IsEmptyText(ocrText) THEN "model" ELSE "analyze"
    /\ ocrCall' = [NoCall EXCEPT !.apiKey = apiKey, !.first = ocrResponse]
    /\ UNCHANGED <<useGemini, trackerFile, body, modelResult, modelCall, response, analyzersRun,
                   responsesSent>>
    /\ UNCHANGED <<piiVars, unitVars, inFlight, runVars>>

\* lines 1091-1111 and, for an error the inner catch rethrows, 1249-1257
Model(apiKey, first, retry, noTool) ==
    /\ pc = "model"
    /\ LET call == analyzeInputWithGemini(InputTypeOf(body), readRawContent(body), apiKey,
                                          first, retry, noTool)
           tolerated == call.error.class = "GeminiRequestError" /\ call.error.status >= 500
       IN IF call.outcome = "return"
          THEN /\ modelResult' = call.result
               /\ text' = IF IsEmptyText(text) /\ ~IsEmptyText(call.result.extractedText)
                          THEN call.result.extractedText ELSE text
               /\ pc' = "analyze"
               /\ UNCHANGED <<modelWarning, response, responsesSent>>
          ELSE IF tolerated
          THEN /\ modelWarning' = IF modelWarning # ""
                                  THEN modelWarning \o "; model fallback: " \o call.error.message
                                  ELSE call.error.message
               /\ pc' = "analyze"
               /\ UNCHANGED <<modelResult, text, response, responsesSent>>
          ELSE /\ response' = Sent(500, [status |-> "error", message |-> "Internal Server Error"])
               /\ responsesSent' = Caught(call.error, responsesSent)
               /\ pc' = "done"
               /\ UNCHANGED <<modelResult, text, modelWarning>>
    /\ modelCall' = [apiKey |-> apiKey, first |-> first, retry |-> retry, noTool |-> noTool]
    /\ UNCHANGED <<useGemini, trackerFile, body, ocrCall, analyzersRun>>
    /\ UNCHANGED <<piiVars, unitVars, inFlight, runVars>>

\* lines 1114-1248 and, for the ProtectError, 1249-1253
Analyze ==
    /\ pc = "analyze"
    /\ response' = ProtectAnalysis(body, text, modelResult, modelWarning, trackerFile)
    /\ responsesSent' = IF response'.status = 400
                        THEN Caught(ProtectError(400, response'.json.message), responsesSent)
                        ELSE responsesSent + 1
    /\ analyzersRun' = AnalyzersRun(body, text)
    /\ pc' = "done"
    /\ UNCHANGED <<useGemini, trackerFile, body, text, modelResult, modelWarning, ocrCall,
                   modelCall>>
    /\ UNCHANGED <<piiVars, unitVars, inFlight, runVars>>


\* whether analyzeInputWithGemini gets as far as its first request
Requests(b, apiKey) ==
    /\ readRawContent(b).kind # "absent"
    /\ apiKey
    /\ InputTypeOf(b) = "image" => readRawContent(b).kind = "image" /\ readRawContent(b).data = "ok"

\* whether the request with google_search_retrieval is made
Retries(first) == first.kind = "http" /\ first.status = 400 /\ NamesSearchTool(first.message)

\* whether the request without tools is made
AsksWithoutTools(first, retry) ==
    LET requestResult == IF Retries(first) THEN retry ELSE first
    IN requestResult.kind = "ok" /\ parseModelText(requestResult.payload) = "none"

Call(apiKey, first, retry, noTool) ==
    [apiKey |-> apiKey, first |-> first, retry |-> retry, noTool |-> noTool]

\* the calls that make requests: a response for each request made, NoResponse
\* for a request the call does not make
RequestCalls ==
    {c \in {Call(TRUE, first, retry, noTool) :
                first \in FirstResponses,
                retry \in LaterResponses \cup {NoResponse},
                noTool \in LaterResponses \cup {NoResponse}} :
        /\ Retries(c.first) <=> c.retry # NoResponse
        /\ AsksWithoutTools(c.first, c.retry) <=> c.noTool # NoResponse}

\* what the model call of a request can meet
ModelCalls(b) ==
    {Call(FALSE, NoResponse, NoResponse, NoResponse)}
    \cup (IF Requests(b, TRUE) THEN RequestCalls
          ELSE {Call(TRUE, NoResponse, NoResponse, NoResponse)})

OcrCalls ==
    {Call(TRUE, r, NoResponse, NoResponse) : r \in OcrResponses}
    \cup {Call(FALSE, NoResponse, NoResponse, NoResponse)}

\* the model call ends, in one of the ways it can for this request
ModelReturns ==
    /\ pc = "model"
    /\ \E call \in ModelCalls(body) : Model(call.apiKey, call.first, call.retry, call.noTool)

Next ==
    \/ \E b \in BodyInputs : Receive(b)
    \/ \E call \in OcrCalls : Ocr(call.apiKey, call.first)
    \/ ModelReturns
    \/ Analyze

Spec == Init /\ [][Next]_vars

(***************************************************************************)
(* detectAndMaskPii on its own: a text is masked, and the masked text is   *)
(* masked again.                                                           *)
(***************************************************************************)
PiiInput(t) ==
    /\ piiPc = "idle"
    /\ piiText' = t
    /\ piiPc' = "input"
    /\ UNCHANGED <<piiFirst, piiSecond>>
    /\ UNCHANGED <<handlerVars, unitVars, inFlight, runVars>>

PiiMask ==
    /\ piiPc = "input"
    /\ piiFirst' = detectAndMaskPii(piiText)
    /\ piiPc' = "masked"
    /\ UNCHANGED <<piiText, piiSecond>>
    /\ UNCHANGED <<handlerVars, unitVars, inFlight, runVars>>

PiiRemask ==
    /\ piiPc = "masked"
    /\ piiSecond' = detectAndMaskPii(piiFirst.maskedText)
    /\ piiPc' = "remasked"
    /\ UNCHANGED <<piiText, piiFirst>>
    /\ UNCHANGED <<handlerVars, unitVars, inFlight, runVars>>

InitPii ==
    /\ useGemini = FALSE
    /\ trackerFile \in {f \in TrackerFiles : f.state = "missing"}
    /\ HandlerIdle
    /\ PiiIdle
    /\ UnitIdle
    /\ PairIdle
    /\ RunIdle

NextPii ==
    \/ \E t \in PiiInputs : PiiInput(t)
    \/ PiiMask
    \/ PiiRemask

SpecPii == InitPii /\ [][NextPii]_vars


(***************************************************************************)
(* Properties of handleProtect.                                            *)
(***************************************************************************)
\* the handler has sent a success response
Succeeded == pc = "done" /\ response.status = 200

\* what the analyzers find in the text the handler ended with
FoundNow == ProtectFindings(body, text, trackerFile)

\* the heuristic index of the request, after the critical-pattern override
HeuristicNow == HeuristicIndex(FoundNow, ProtectScores(FoundNow))

\* a response of a call: the timer aborted the request, or the service
\* answered with a 5xx status
TimedOut(r) == r.kind = "abort"

ServerError(r) == r.kind = "http" /\ r.status >= 500

OcrFailed == TimedOut(ocrCall.first) \/ ServerError(ocrCall.first)

ModelFailed ==
    \E r \in {modelCall.first, modelCall.retry, modelCall.noTool} : TimedOut(r) \/ ServerError(r)

\* C1: in every success response whose phishing flags hold the critical
\* pattern (urgency, call to action and data-loss threat with payment pressure
\* or a credential request), the final index is at least 97, whatever the
\* input type and whether or not a model assessment is blended in.
C1_CriticalPatternFloor ==
    (Succeeded /\ hasCriticalScamPattern(response.json.data.phishingRisk.flags))
        => response.json.data.veracityIndex >= 97

\* C2: in every success response the phishing, PII and privacy scores and
\* the final index are integers from 0 to 100, also for an empty text and
\* empty URL lists.
C2_ScoresInRange ==
    Succeeded =>
        /\ response.json.data.phishingRisk.score \in 0..100
        /\ response.json.data.piiRisk.score \in 0..100
        /\ response.json.data.privacyRisk.score \in 0..100
        /\ response.json.data.veracityIndex \in 0..100

\* C2 at work: a response whose uncapped phishing sum exceeds 100, blended
\* with a model score that the model sent as 150
C2_Witness ==
    /\ Succeeded
    /\ response.json.data.phishingRisk.score = 100
    /\ modelCall.first.kind = "ok"
    /\ modelCall.first.payload.modelText = "json"
    /\ modelCall.first.payload.raw.veracityIndex.tenths = 1500
    /\ hasModelSignal(modelResult)

\* C3: the handler answers with an error status only when the request holds
\* nothing to check (400); for every other request, however the OCR call and
\* the model call end, it answers 200.
C3_OnlyRejectionFails ==
    pc = "done" =>
        \/ response.status = 200
        \/ response.status = 400 /\ IsRejected(body, text, FoundNow)

\* C4: for an image request, whenever the OCR call or the model call times
\* out or fails with a 5xx status, the handler still answers 200.
C4_FailedCallStillSucceeds ==
    (pc = "done" /\ HasImagePayload(body) /\ (OcrFailed \/ ModelFailed))
        => response.status = 200

\* C5: when the model call times out or meets a server error, the final
\* index of the response is the index the handler gives without a model
\* result: neither a model score nor a placeholder score is blended into it.
C5_FailedModelLeavesHeuristicIndex ==
    (Succeeded /\ ModelFailed)
        => response.json.data.veracityIndex
             \in {HeuristicNow, FinalIndex(body, text, NoModelResult, HeuristicNow)}

\* C6, as the handler has it: without a model assessment with signal, the
\* final index is 28 for an image whose text could not be read; otherwise the
\* heuristic index stands, a 0 replaced by 1 (url input) or 2 (other input).
C6_IndexWithoutSignal ==
    (Succeeded /\ ~hasModelSignal(modelResult))
        => response.json.data.veracityIndex =
             IF HasImagePayload(body) /\ IsEmptyText(text) THEN 28
             ELSE IF HeuristicNow = 0
             THEN (IF response.json.data.inputType = "url" THEN 1 ELSE 2)
             ELSE HeuristicNow

\* C6 as stated: without a model assessment with signal, the final index is
\* the heuristic index, a 0 replaced by 1 (url input) or 2 (other input), and
\* nothing else is put in its place.
C6_OnlyZeroIsReplaced ==
    (Succeeded /\ ~hasModelSignal(modelResult))
        => response.json.data.veracityIndex =
             IF HeuristicNow = 0
             THEN (IF response.json.data.inputType = "url" THEN 1 ELSE 2)
             ELSE HeuristicNow

\* C6 at work: an image without readable text whose URL field alone gives a
\* heuristic index above 28, answered with 28
C6_Witness ==
    /\ Succeeded
    /\ ~hasModelSignal(modelResult)
    /\ HasImagePayload(body) /\ IsEmptyText(text)
    /\ HeuristicNow > 28
    /\ response.json.data.veracityIndex = 28

\* C7: in every success response the verdict follows from the final index
\* alone: "High Risk" exactly from 65 on, "Medium Risk" exactly from 35 to 64,
\* "Low Risk" exactly below 35, also when the model assessment has a verdict
\* of its own.
C7_VerdictFollowsIndex ==
    Succeeded =>
        /\ response.json.data.verdict = "High Risk"
             <=> response.json.data.veracityIndex >= 65
        /\ response.json.data.verdict = "Medium Risk"
             <=> (response.json.data.veracityIndex >= 35
                  /\ response.json.data.veracityIndex < 65)
        /\ response.json.data.verdict = "Low Risk"
             <=> response.json.data.veracityIndex < 35

\* C7 at work: a blended response of high index whose model assessment says
\* "Low Risk"
C7_Witness ==
    /\ Succeeded
    /\ hasModelSignal(modelResult)
    /\ modelResult.verdict = "Low Risk"
    /\ response.json.data.veracityIndex >= 65
    /\ response.json.data.verdict = "High Risk"

\* C8: in every success response keyFindings has at most 8 entries,
\* fakeParts at most 12, recommendedActions at most 6 and evidenceSources at
\* most 8, whatever the heuristics, the model and the warnings contribute.
C8_ListCaps ==
    Succeeded =>
        /\ Len(response.json.data.keyFindings) <= 8
        /\ Len(response.json.data.fakeParts) <= 12
        /\ Len(response.json.data.recommendedActions) <= 6
        /\ Len(response.json.data.evidenceSources) <= 8

(***************************************************************************)
(* The responses of handleProtect.  Both calls the handler awaits settle:  *)
(* each request they make is aborted by a timer (openai.ts:91-92,          *)
(* gemini.ts:436-437), so a handler that can take a step takes it.         *)
(***************************************************************************)
\* the handler is at a point from which it goes on: at an await for which
\* the call has an outcome, or before the analysis
GoesOn ==
    \/ pc = "ocr" /\ OcrCalls # {}
    \/ pc = "model" /\ ModelCalls(body) # {}
    \/ pc = "analyze"

\* C27: on every execution path of handleProtect (input rejection, OCR
\* success or failure, model success, fallback or failure, analyzer
\* completion) exactly one HTTP response is sent: at no time have two been
\* sent, a handler that has received its request either goes on or has
\* ended, and it has ended exactly when one response has been sent.
C27_ExactlyOneResponse ==
    /\ responsesSent <= 1
    /\ pc = "done" <=> responsesSent = 1
    /\ response # NotSent <=> responsesSent = 1
    /\ pc \notin {"idle", "done"} => GoesOn

\* the model call failed with an error the handler does not tolerate, and the
\* catch block answered it once
C27_Witness ==
    /\ pc = "done"
    /\ modelCall # NoCall
    /\ response.status = 500
    /\ responsesSent = 1

(***************************************************************************)
(* Properties of detectAndMaskPii.  The texts it is applied to hold one    *)
(* run of digits at most.                                                  *)
(***************************************************************************)
\* t holds, from position i on, a run of exactly sixteen digits (no digit
\* before it, none after it) that fails the Luhn checksum
IsLuhnFailingRun(t, i) ==
    /\ DigitsAt(t, i, 16)
    /\ ~IsDigit(Chars(t, i - 1))
    /\ ~IsDigit(Chars(t, i + 16))
    /\ ~luhnCheck(SubSeq(t, i, i + 15))

\* C9: for a text with a run of 16 digits that fails the Luhn checksum,
\* detectAndMaskPii reports no credit_card detection and the run stands
\* unchanged in maskedText: no pass rewrites any part of it.
C9_LuhnFailingRunUntouched ==
    piiPc \in {"masked", "remasked"} =>
        \A i \in 1..Len(piiText) :
            IsLuhnFailingRun(piiText, i) =>
                /\ \A k \in 1..Len(piiFirst.detections) :
                      piiFirst.detections[k].type # "credit_card"
                /\ Includes(piiFirst.maskedText, SubSeq(piiText, i, i + 15))

\* C10: masking is idempotent: detectAndMaskPii on the maskedText it returned
\* for a text finds nothing (totalCount 0) and returns that text unchanged.
C10_MaskingIdempotent ==
    piiPc = "remasked" =>
        /\ piiSecond.totalCount = 0
        /\ piiSecond.maskedText = piiFirst.maskedText


\* every character of t from i to j is a digit, a space or a hyphen
DigitsAndSeparators(t, i, j) == \A k \in i..j : IsDigit(t[k]) \/ IsCardSep(t[k])

\* t holds, from position i to position j, a whole run of digits, contiguous
\* or separated by spaces or hyphens: it starts and ends with a digit and no
\* digit further left or further right continues it
IsDigitRun(t, i, j) ==
    /\ i <= j
    /\ IsDigit(t[i])
    /\ IsDigit(t[j])
    /\ DigitsAndSeparators(t, i, j)
    /\ ~\E h \in 1..(i - 1) : IsDigit(t[h]) /\ DigitsAndSeparators(t, h, i)
    /\ ~\E h \in (j + 1)..Len(t) : IsDigit(t[h]) /\ DigitsAndSeparators(t, j, h)

\* a whole run of 13 to 19 digits that passes the Luhn checksum
IsLuhnPassingRun(t, i, j) ==
    /\ IsDigitRun(t, i, j)
    /\ Len(OnlyDigits(SubSeq(t, i, j))) \in 13..19
    /\ luhnCheck(OnlyDigits(SubSeq(t, i, j)))

\* C21: a run of 13 to 19 digits (contiguous or separated by spaces or
\* hyphens) that passes the Luhn checksum is counted exactly once, as a
\* credit_card detection and under no other kind, and stands in maskedText as
\* '**** **** **** ' followed by its last four digits: the earlier passes
\* consume no part of it.  (The texts hold one run of digits at most, and
\* those with a card number hold nothing else a pass could match.)
C21_LuhnPassingRunCountedOnceAsCard ==
    piiPc \in {"masked", "remasked"} =>
        \A i \in 1..Len(piiText) : \A j \in i..Len(piiText) :
            IsLuhnPassingRun(piiText, i, j) =>
                /\ Len(piiFirst.detections) = 1
                /\ piiFirst.detections[1].type = "credit_card"
                /\ piiFirst.detections[1].count = 1
                /\ piiFirst.totalCount = 1
                /\ Includes(piiFirst.maskedText,
                            <<"*", "*", "*", "*", " ", "*", "*", "*", "*", " ", "*", "*", "*", "*", " ">>
                                \o LastFour(OnlyDigits(SubSeq(piiText, i, j))))

(***************************************************************************)
(* The analyzers on their own: one of them is applied to arguments drawn   *)
(* from the sets below.  unitCall holds its name and arguments, unitResult *)
(* what it returned.                                                       *)
(***************************************************************************)
\* new URL("https://" + host + path).toString()
Https(host, path) == [scheme |-> "https", host |-> host, path |-> path]

\* https://paypa1-secure.com/login
PaypalLoginUrl ==
    Https(<<"p", "a", "y", "p", "a", "1", "-", "s", "e", "c", "u", "r", "e", ".", "c", "o", "m">>, "/login")

LookalikeHosts ==
    {<<"p", "a", "y", "p", "a", "1", "-", "s", "e", "c", "u", "r", "e", ".", "c", "o", "m">>,
     <<"p", "a", "y", "p", "a", "l", ".", "c", "o", "m">>,
     <<"w", "w", "w", ".", "p", "a", "y", "p", "a", "l", ".", "c", "o", "m">>,
     <<"p", "a", "y", "p", "a", "1", ".", "c", "o", "m">>,
     <<"x", "p", "a", "y", "p", "a", "l", ".", "c", "o", "m">>,
     <<"m", "y", "p", "a", "y", "p", "a", "l", ".", "c", "o", "m">>,
     <<"p", "a", "y", "p", "a", "l", "-", "l", "o", "g", "i", "n", ".", "c", "o", "m">>,
     <<"g", "o", "g", "l", "e", ".", "c", "o", "m">>,
     <<"g", "o", "o", "g", "l", "e", ".", "c", "o", "m">>,
     <<"g", "0", "0", "g", "l", "e", ".", "c", "o", ".", "u", "k">>,
     <<"i", "c", "l", "o", "u", "d", ".", "c", "o", "m">>,
     <<"n", "e", "t", "f", "l", "1", "x", ".", "c", "o", "m">>,
     <<"s", "t", "e", "a", "m", ".", "c", "o", "m">>,
     <<"c", "a", "s", "h", ".", "a", "p", "p">>,
     <<"a", "-", "p", "-", "p", "-", "l", "-", "e", ".", "c", "o", "m">>,
     <<"c", "h", "a", "s", "s", "e", ".", "c", "o", "m">>,
     <<"1", "9", "2", ".", "1", "6", "8", ".", "0", ".", "1">>,
     <<"x", "n", "-", "-", "p", "y", "p", "a", "l", "-", "4", "v", "e", ".", "c", "o", "m">>,
     <<"s", "h", "o", "p", ".", "e", "x", "a", "m", "p", "l", "e", ".", "z", "i", "p">>,
     <<"n", "e", "w", "s", ".", "e", "x", "a", "m", "p", "l", "e", ".", "c", "o", "m">>}

\* the URL lists given to buildLookalikeMatches: one URL, or the login URL
\* followed by another
LookalikeInputs ==
    {<<PaypalLoginUrl>>}
    \cup {<<Https(h, "/")>> : h \in LookalikeHosts}
    \cup {<<PaypalLoginUrl, Https(h, "/")>> : h \in LookalikeHosts}

ApplyLookalike(urls) ==
    /\ unitCall = NoUnitCall
    /\ unitCall' = [fn |-> "buildLookalikeMatches", urls |-> urls]
    /\ unitResult' = buildLookalikeMatches(urls)
    /\ UNCHANGED <<handlerVars, piiVars, inFlight, runVars>>


\* the URLs buildLookalikeMatches was applied to, once it has returned
LookalikeUrls ==
    IF unitCall.fn = "buildLookalikeMatches" THEN unitCall.urls ELSE <<>>

\* the second-level label the brand checks of a URL read, letters and digits only
NormalizedSldOf(url) ==
    OnlyLowerAlnum(SplitDots(getRegistrableDomain(ToLowerCase(url.host)))[1])

\* the result holds a 'looks similar to <brand>' match of high severity for the URL
HasSimilarMatch(url, brand) ==
    \E k \in 1..Len(unitResult) :
        /\ unitResult[k].url = url
        /\ unitResult[k].reason.kind = "similar"
        /\ unitResult[k].reason.brand = brand
        /\ unitResult[k].severity = "high"

\* C11: buildLookalikeMatches applied to https://paypa1-secure.com/login
\* returns at least one match of high severity whose reason names the brand
\* paypal.
C11_PaypalLoginIsFlagged ==
    (\E i \in 1..Len(LookalikeUrls) : LookalikeUrls[i] = PaypalLoginUrl)
        => \E k \in 1..Len(unitResult) :
              /\ unitResult[k].url = PaypalLoginUrl
              /\ unitResult[k].severity = "high"
              /\ unitResult[k].reason.brand = "paypal"

\* C20: for every URL given to buildLookalikeMatches and every brand of the
\* brand map: when the second-level label (letters and digits only) differs
\* from the brand token and lies at Levenshtein distance 1 or 2 from it, the
\* result holds a high-severity 'looks similar to <brand>' match for the URL,
\* whatever the contains-brand / official-domain check finds; at distance 0
\* it holds no such match.
C20_SimilarMatchByDistanceAlone ==
    \A i \in 1..Len(LookalikeUrls) : \A b \in 1..Len(BRAND_DOMAINS) :
        LET sld == NormalizedSldOf(LookalikeUrls[i])
            token == BRAND_DOMAINS[b].token
            distance == levenshteinDistance(sld, token)
        IN /\ (sld # token /\ distance \in {1, 2})
                => HasSimilarMatch(LookalikeUrls[i], BRAND_DOMAINS[b].brand)
           /\ distance = 0 => ~HasSimilarMatch(LookalikeUrls[i], BRAND_DOMAINS[b].brand)


\* the result holds a 'references <brand> but does not match official
\* domains' match of high severity for the URL
HasReferencesMatch(url, brand) ==
    \E k \in 1..Len(unitResult) :
        /\ unitResult[k].url = url
        /\ unitResult[k].reason.kind = "references"
        /\ unitResult[k].reason.brand = brand
        /\ unitResult[k].severity = "high"

\* the host is one of the brand's official domains or a dot-separated
\* subdomain of one
IsOfficialHost(host, entry) ==
    \E k \in 1..Len(entry.domains) :
        host = entry.domains[k] \/ EndsWith(host, <<".">> \o entry.domains[k])

\* C28: a host counts as an official domain of a brand only if it equals one
\* of the brand's official domains or is a dot-separated subdomain of one:
\* for every URL given to buildLookalikeMatches and every brand, a host that
\* contains the brand token and is neither yields a high-severity
\* 'references <brand> but does not match official domains' match, and an
\* official host yields none.
C28_OfficialOnlyAtLabelBoundary ==
    \A i \in 1..Len(LookalikeUrls) : \A b \in 1..Len(BRAND_DOMAINS) :
        LET url == LookalikeUrls[i]
            host == ToLowerCase(url.host)
            entry == BRAND_DOMAINS[b]
        IN /\ (Includes(host, entry.token) /\ ~IsOfficialHost(host, entry))
                => HasReferencesMatch(url, entry.brand)
           /\ IsOfficialHost(host, entry) => ~HasReferencesMatch(url, entry.brand)

(***************************************************************************)
(* The rejection of a request with nothing to check.                       *)
(***************************************************************************)
\* the request the handler has finished carries nothing to check: no text
\* after normalisation and OCR, no URL, no resource URL and no image payload
NothingToCheck ==
    /\ IsEmptyText(text)
    /\ collectUrls(body, text) = <<>>
    /\ collectResourceUrls(body, text) = <<>>
    /\ ~HasImagePayload(body)

\* C12: a finished request is answered with status 400 exactly when its
\* normalized text is empty, no URL and no resource URL could be collected and
\* it carries no image payload; and when it is answered 400, none of the four
\* analyzers (phishing flags, lookalike matches, PII masking, tracker audit)
\* has been run.
C12_RejectsExactlyNothingToCheck ==
    pc = "done" =>
        /\ response.status = 400 <=> NothingToCheck
        /\ response.status = 400 => analyzersRun = {}

\* a rejected request, and the analyzers not run for it
C12_Witness ==
    /\ pc = "done"
    /\ NothingToCheck
    /\ response.status = 400
    /\ analyzersRun = {}


\* the smaller of the two
AtMost(value, max) == IF value < max THEN value ELSE max

(***************************************************************************)
(* The fusion with the model assessment.                                   *)
(***************************************************************************)
\* the assessment has a non-zero score, a summary, findings, flagged
\* segments or evidence
CarriesSignal(result) ==
    \/ result.veracityIndex # 0
    \/ result.summary # ""
    \/ result.keyFindings # <<>>
    \/ result.fakeParts # <<>>
    \/ result.evidenceSources # <<>>

\* the final index of a request that has no model assessment
IndexWithoutAssessment ==
    IF HasImagePayload(body) /\ IsEmptyText(text) THEN NoTextIndex
    ELSE IF HeuristicNow = 0 THEN (IF InputTypeOf(body) = "url" THEN 1 ELSE 2)
    ELSE HeuristicNow

\* C19: in every success response of a request with a model assessment, the
\* final index is 0.55 * heuristic index + 0.45 * model index, rounded and
\* clamped to 0..100, when the assessment has a non-zero score or a non-empty
\* summary, findings, flagged segments or evidence; and it is the index the
\* request has without any assessment when the score is 0 and all of these
\* are empty.
C19_IndexWithAssessment ==
    (Succeeded /\ modelResult # NoModelResult) =>
        response.json.data.veracityIndex =
            IF CarriesSignal(modelResult)
            THEN AtMost((55 * HeuristicNow + 45 * modelResult.veracityIndex + 50) \div 100, 100)
            ELSE IndexWithoutAssessment

\* an assessment with signal whose score moves the index away from the
\* heuristic index
C19_Witness ==
    /\ Succeeded
    /\ modelResult # NoModelResult
    /\ CarriesSignal(modelResult)
    /\ modelResult.veracityIndex > 0
    /\ HeuristicNow > 0
    /\ response.json.data.veracityIndex # HeuristicNow
    /\ response.json.data.veracityIndex # modelResult.veracityIndex

(***************************************************************************)
(* Two requests handled concurrently.  Every invocation of handleProtect   *)
(* declares its own body, text, modelResult and modelWarning (lines        *)
(* 1065-1072); the module keeps constants only.  An invocation gives up    *)
(* control at its two awaits (lines 1076 and 1094), where a step of the    *)
(* other invocation may run.                                               *)
(***************************************************************************)
RequestIds == {1, 2}

\* the locals of an invocation before its request arrives
IdleLocals ==
    [pc |-> "idle", body |-> Body("", NoContent, NoRaw, NoRaw, <<>>), text |-> EmptyText,
     modelResult |-> NoModelResult, modelWarning |-> "", ocrCall |-> NoCall,
     modelCall |-> NoCall, response |-> NotSent]

\* an invocation that read the text the other invocation holds; the
\* independence of concurrent requests (C13) must not hold of it
LocalsWithSharedText(flight, r) == [flight[r] EXCEPT !.text = flight[3 - r].text]

\* what invocation r reads: the variables of its own scope
Locals(flight, r) == flight[r]

\* lines 1065-1072
Received(l, b) ==
    [l EXCEPT !.body = b,
              !.text = readTextFromBody(b),
              !.pc = IF HasImagePayload(b) THEN "ocr" ELSE "analyze"]

\* lines 1076-1088, once the OCR call has returned or thrown
OcrSettled(l, gemini, call, ocr) ==
    [l EXCEPT !.text = IF ocr.outcome = "return" /\ ~IsEmptyText(ocr.result)
                       THEN ocr.result ELSE l.text,
              !.modelWarning = IF ocr.outcome = "throw"
                               THEN "OCR unavailable: " \o ocr.error.message
                               ELSE l.modelWarning,
              !.pc = IF gemini \/ (IsEmptyText(l.text)
                                   /\ ~(ocr.outcome = "return" /\ ~IsEmptyText(ocr.result)))
                     THEN "model" ELSE "analyze",
              !.ocrCall = call]

\* lines 1074-1089
AfterOcr(l, gemini, call) ==
    OcrSettled(l, gemini, call,
               extractTextFromImage(readRawContent(l.body), call.apiKey, call.first))

\* lines 1099-1110 and 1249-1257, once the model call has returned or thrown
ModelSettled(l, call, model) ==
    IF model.outcome = "return"
    THEN [l EXCEPT !.modelResult = model.result,
                   !.text = IF IsEmptyText(l.text) /\ ~IsEmptyText(model.result.extractedText)
                            THEN model.result.extractedText ELSE l.text,
                   !.pc = "analyze",
                   !.modelCall = call]
    ELSE IF model.error.class = "GeminiRequestError" /\ model.error.status >= 500
    THEN [l EXCEPT !.modelWarning = IF l.modelWarning # ""
                                    THEN l.modelWarning \o "; model fallback: "
                                         \o model.error.message
                                    ELSE model.error.message,
                   !.pc = "analyze",
                   !.modelCall = call]
    ELSE [l EXCEPT !.response = Sent(500, [status |-> "error",
                                           message |-> "Internal Server Error"]),
                   !.pc = "done",
                   !.modelCall = call]

\* lines 1091-1111
AfterModel(l, call) ==
    ModelSettled(l, call,
                 analyzeInputWithGemini(InputTypeOf(l.body), readRawContent(l.body),
                                        call.apiKey, call.first, call.retry, call.noTool))

\* lines 1114-1257
AfterAnalysis(l, file) ==
    [l EXCEPT !.response = ProtectAnalysis(l.body, l.text, l.modelResult, l.modelWarning, file),
              !.pc = "done"]

PairReceive(r, b) ==
    /\ inFlight[r].pc = "idle"
    /\ inFlight' = [inFlight EXCEPT ![r] = Received(Locals(inFlight, r), b)]
    /\ UNCHANGED <<handlerVars, piiVars, unitVars, runVars>>

PairOcr(r, call) ==
    /\ inFlight[r].pc = "ocr"
    /\ inFlight' = [inFlight EXCEPT ![r] = AfterOcr(Locals(inFlight, r), useGemini, call)]
    /\ UNCHANGED <<handlerVars, piiVars, unitVars, runVars>>

PairModel(r, call) ==
    /\ inFlight[r].pc = "model"
    /\ call \in ModelCalls(inFlight[r].body)
    /\ inFlight' = [inFlight EXCEPT ![r] = AfterModel(Locals(inFlight, r), call)]
    /\ UNCHANGED <<handlerVars, piiVars, unitVars, runVars>>

PairAnalyze(r) ==
    /\ inFlight[r].pc = "analyze"
    /\ inFlight' = [inFlight EXCEPT ![r] = AfterAnalysis(Locals(inFlight, r), trackerFile)]
    /\ UNCHANGED <<handlerVars, piiVars, unitVars, runVars>>

PairBodies ==
    {Body("text", TextContent(CriticalText), NoRaw, NoRaw, <<>>),
     Body("url", UrlContent(RawPaypa1), NoRaw, NoRaw, <<RawAnalytics>>),
     Body("image", ImageContent("ok"), NoRaw, NoRaw, <<>>),
     Body("", NoContent, NoRaw, NoRaw, <<>>)}

PairOcrCalls ==
    {Call(TRUE, r, NoResponse, NoResponse) : r \in {Ok(EmptyText), Ok(PlainText), Abort}}
    \cup {Call(FALSE, NoResponse, NoResponse, NoResponse)}

PairModelCalls ==
    {Call(FALSE, NoResponse, NoResponse, NoResponse)}
    \cup {c \in RequestCalls :
            /\ c.first \in {Ok([modelText |-> "json", raw |-> r, grounding |-> <<>>]) :
                                r \in {x \in RawResponses :
                                         /\ x.veracityIndex = [finite |-> TRUE, tenths |-> 400]
                                         /\ x.summary = ""
                                         /\ x.keyFindings = <<>>
                                         /\ x.recommendedActions = <<>>}}
                           \cup {HttpError(500, "Internal error."), NetworkFailure}}

InitPair ==
    /\ useGemini \in BOOLEAN
    /\ trackerFile \in {f \in TrackerFiles : f.state = "missing"}
    /\ HandlerIdle
    /\ PiiIdle
    /\ UnitIdle
    /\ inFlight = [r \in RequestIds |-> IdleLocals]
    /\ RunIdle

NextPair ==
    \E r \in RequestIds :
        \/ \E b \in PairBodies : PairReceive(r, b)
        \/ \E call \in PairOcrCalls : PairOcr(r, call)
        \/ \E call \in PairModelCalls : PairModel(r, call)
        \/ PairAnalyze(r)

SpecPair == InitPair /\ [][NextPair]_vars

\* the locals of the invocation that handles body b on its own and meets
\* the given outcomes of its OCR and model calls
AloneAfterOcr(l, gemini, ocr) == IF l.pc = "ocr" THEN AfterOcr(l, gemini, ocr) ELSE l

AloneAfterModel(l, model) == IF l.pc = "model" THEN AfterModel(l, model) ELSE l

AloneAfterAnalysis(l, file) == IF l.pc = "analyze" THEN AfterAnalysis(l, file) ELSE l

HandledAlone(b, gemini, file, ocr, model) ==
    AloneAfterAnalysis(
        AloneAfterModel(AloneAfterOcr(Received(IdleLocals, b), gemini, ocr), model),
        file)

GoogleAnalyticsHost == <<"g", "o", "o", "g", "l", "e", "-", "a", "n", "a", "l", "y", "t", "i", "c", "s", ".", "c", "o", "m">>

\* https://news.example.com/
NewsPageUrl == Https(<<"n", "e", "w", "s", ".", "e", "x", "a", "m", "p", "l", "e", ".", "c", "o", "m">>, "/")

\* https://google-analytics.com/collect
AnalyticsCollectUrl == Https(GoogleAnalyticsHost, "/collect")

\* https://example.com./, the page's host written as a fully qualified name
RootedPageUrl == Https(<<"e", "x", "a", "m", "p", "l", "e", ".", "c", "o", "m", ".">>, "/")

\* https://cdn.example.com./app.js
RootedCdnUrl == Https(<<"c", "d", "n", ".", "e", "x", "a", "m", "p", "l", "e", ".", "c", "o", "m", ".">>, "/app.js")

AuditPrimaryUrls == {NullUrl, NewsPageUrl, RootedPageUrl, Https(<<"w", "w", "w", ".", "g", "o", "o", "g", "l", "e", "-", "a", "n", "a", "l", "y", "t", "i", "c", "s", ".", "c", "o", "m">>, "/")}

AuditResources ==
    {AnalyticsCollectUrl,
     Https(<<"w", "w", "w", ".", "g", "o", "o", "g", "l", "e", "-", "a", "n", "a", "l", "y", "t", "i", "c", "s", ".", "c", "o", "m">>, "/analytics.js"),
     Https(<<"c", "o", "n", "n", "e", "c", "t", ".", "f", "a", "c", "e", "b", "o", "o", "k", ".", "n", "e", "t">>, "/sdk.js"),
     Https(<<"c", "d", "n", ".", "e", "x", "a", "m", "p", "l", "e", ".", "c", "o", "m">>, "/app.js"),
     RootedCdnUrl,
     Https(<<"t", "r", "a", "c", "k", "e", "r", ".", "e", "x", "a", "m", "p", "l", "e">>, "/p")}

\* the resource lists given to buildTrackerAudit: up to two resources, in
\* either order and with repetition
AuditResourceLists ==
    {<<>>}
    \cup {<<u>> : u \in AuditResources}
    \cup {<<u, v>> : u \in AuditResources, v \in AuditResources}

Entry(domain, owner, category) == [domain |-> domain, owner |-> owner, category |-> category]

DirectoryFiles ==
    {[state |-> s, items |-> <<>>] : s \in {"missing", "unreadable", "invalid-json", "not-array", "array"}}
    \cup {[state |-> "array", items |-> i] :
            i \in {<<Entry(<<>>, "", "")>>,
                   <<Entry(<<"h", "t", "t", "p", "s", ":", "/", "/", "w", "w", "w", ".", "/", "x">>, "Acme", "")>>,
                   <<Entry(<<"h", "t", "t", "p", "s", ":", "/", "/", "w", "w", "w", ".", "T", "r", "a", "c", "k", "e", "r", ".", "e", "x", "a", "m", "p", "l", "e", "/", "p", "a", "t", "h">>, "Acme", "advertising")>>,
                   <<Entry(<<>>, "", ""), Entry(GoogleAnalyticsHost, "Google", "analytics")>>,
                   <<Entry(GoogleAnalyticsHost, "Google", "analytics"),
                     Entry(<<"W", "W", "W", ".", "G", "o", "o", "g", "l", "e", "-", "A", "n", "a", "l", "y", "t", "i", "c", "s", ".", "C", "O", "M">>, "", "")>>,
                   <<Entry(GoogleAnalyticsHost, "", ""), Entry(<<"c", "o", "m">>, "", "")>>,
                   <<Entry(<<"f", "a", "c", "e", "b", "o", "o", "k", ".", "n", "e", "t">>, "Meta", "social"), Entry(<<"c", "o", "n", "n", "e", "c", "t", ".", "f", "a", "c", "e", "b", "o", "o", "k", ".", "n", "e", "t">>, "Meta", "social")>>}}

ApplyTrackerAudit(primaryUrl, resourceUrls, file) ==
    /\ unitCall = NoUnitCall
    /\ unitCall' = [fn |-> "buildTrackerAudit", primaryUrl |-> primaryUrl,
                    resourceUrls |-> resourceUrls, file |-> file]
    /\ unitResult' = buildTrackerAudit(primaryUrl, resourceUrls, file)
    /\ UNCHANGED <<handlerVars, piiVars, inFlight, runVars>>


\* the resource is loaded from another registrable domain than the page, or
\* no page is known
LoadedFromElsewhere(primaryUrl, resourceUrl) ==
    \/ primaryUrl = NullUrl
    \/ getRegistrableDomain(resourceUrl.host) # getRegistrableDomain(primaryUrl.host)

ThirdPartyUrls(primaryUrl, resourceUrls) ==
    {resourceUrls[k] :
        k \in {j \in 1..Len(resourceUrls) : LoadedFromElsewhere(primaryUrl, resourceUrls[j])}}

MatchedDomains(audit) ==
    {audit.trackerMatches[k].trackerDomain : k \in 1..Len(audit.trackerMatches)}

\* the domains of the directory's valid entries
DirectoryDomains(file) ==
    IF file.state = "array"
    THEN {normalizeDomain(file.items[k].domain) : k \in 1..Len(file.items)} \ {<<>>}
    ELSE {}

FallbackDomains == {FALLBACK_TRACKER_DOMAINS[k] : k \in 1..Len(FALLBACK_TRACKER_DOMAINS)}

\* the host is the domain or one of its subdomains
IsHostOf(domain, host) == host = domain \/ EndsWith(host, <<".">> \o domain)

\* the page of scenario D with its single resource
IsAnalyticsScenario(call) ==
    /\ call.fn = "buildTrackerAudit"
    /\ call.primaryUrl = NewsPageUrl
    /\ call.resourceUrls = <<AnalyticsCollectUrl>>

\* the domains of the tracker list in use (the directory's valid entries, or
\* the fallback list when there are none) that the host falls under
ListedDomainsOf(file, host) ==
    {d \in (IF DirectoryDomains(file) = {} THEN FallbackDomains ELSE DirectoryDomains(file)) :
        IsHostOf(d, host)}

\* C14 as stated: in every audit, thirdPartyCount is the number of distinct
\* third-party resource URLs and trackersFound the number of distinct tracker
\* domains among the matches; and for the page https://news.example.com/
\* with the single resource https://google-analytics.com/collect the audit
\* reports 1 third-party resource, 1 tracker match and trackersFound 1.
C14_AuditCounts ==
    unitCall.fn = "buildTrackerAudit" =>
        /\ unitResult.thirdPartyCount
             = Cardinality(ThirdPartyUrls(unitCall.primaryUrl, unitCall.resourceUrls))
        /\ unitResult.trackersFound = Cardinality(MatchedDomains(unitResult))
        /\ IsAnalyticsScenario(unitCall) =>
              /\ unitResult.thirdPartyCount = 1
              /\ Len(unitResult.trackerMatches) = 1
              /\ unitResult.trackersFound = 1

\* C14, amended: in every audit, thirdPartyCount is the number of distinct
\* third-party resource URLs and trackersFound the number of distinct tracker
\* domains among the matches; and for the page https://news.example.com/
\* with the single resource https://google-analytics.com/collect the audit
\* reports 1 third-party resource and, when google-analytics.com is the one
\* domain of the tracker list in use that the resource's host falls under,
\* 1 tracker match and trackersFound 1.
C14_AuditCountsWithListedTracker ==
    unitCall.fn = "buildTrackerAudit" =>
        /\ unitResult.thirdPartyCount
             = Cardinality(ThirdPartyUrls(unitCall.primaryUrl, unitCall.resourceUrls))
        /\ unitResult.trackersFound = Cardinality(MatchedDomains(unitResult))
        /\ IsAnalyticsScenario(unitCall) => unitResult.thirdPartyCount = 1
        /\ (/\ IsAnalyticsScenario(unitCall)
            /\ ListedDomainsOf(unitCall.file, GoogleAnalyticsHost) = {GoogleAnalyticsHost}) =>
              /\ Len(unitResult.trackerMatches) = 1
              /\ unitResult.trackersFound = 1

\* scenario D with a directory that lists google-analytics.com, twice
C14_Witness ==
    /\ IsAnalyticsScenario(unitCall)
    /\ Cardinality(DirectoryDomains(unitCall.file)) = 1
    /\ Len(unitCall.file.items) = 2
    /\ ListedDomainsOf(unitCall.file, GoogleAnalyticsHost) = {GoogleAnalyticsHost}
    /\ unitResult.thirdPartyCount = 1
    /\ Len(unitResult.trackerMatches) = 1
    /\ unitResult.trackersFound = 1

\* C15: when the directory file is missing, unreadable, not valid JSON, not
\* an array or without a valid entry, the audit is made with the fallback
\* list: the tracker domains it reports are the fallback domains that a
\* third-party resource's host falls under; when the file has a valid entry
\* they are the directory's domains that do, and no fallback domain is
\* reported on the fallback list's account.
C15_FallbackOnlyWithoutValidEntry ==
    unitCall.fn = "buildTrackerAudit" =>
        MatchedDomains(unitResult) =
            UNION {ListedDomainsOf(unitCall.file, u.host) :
                     u \in ThirdPartyUrls(unitCall.primaryUrl, unitCall.resourceUrls)}

\* a file whose only item holds no domain: the fallback list finds the tracker
C15_Witness ==
    /\ unitCall.fn = "buildTrackerAudit"
    /\ unitCall.file.state = "array"
    /\ unitCall.file.items # <<>>
    /\ DirectoryDomains(unitCall.file) = {}
    /\ unitCall.resourceUrls = <<AnalyticsCollectUrl>>
    /\ MatchedDomains(unitResult) = {GoogleAnalyticsHost}

(***************************************************************************)
(* buildPhishingFlags on its own.                                          *)
(***************************************************************************)
\* the texts given to buildPhishingFlags: any phrases of the vocabulary
FlagTexts == {[phrases |-> p, urls |-> <<>>, pii |-> <<>>] : p \in SUBSET Vocabulary}

ApplyPhishingFlags(t) ==
    /\ unitCall = NoUnitCall
    /\ unitCall' = [fn |-> "buildPhishingFlags", text |-> t]
    /\ unitResult' = buildPhishingFlags(t)
    /\ UNCHANGED <<handlerVars, piiVars, inFlight, runVars>>

\* the categories in the order the claim gives them
FlagOrder ==
    <<"Urgency & pressure", "Credential request", "Payment pressure", "Call-to-action link",
      "Data loss threat">>

FlagPosition(type) == CHOOSE k \in 1..Len(FlagOrder) : FlagOrder[k] = type

\* C16: buildPhishingFlags returns at most one flag per category, in the
\* order urgency, credential request, payment pressure, call to action,
\* data-loss threat; the severity is high for credential request, payment
\* pressure and data-loss threat and medium for urgency and call to action;
\* and for the empty text the result is empty.
C16_FlagsOrderedOncePerCategory ==
    unitCall.fn = "buildPhishingFlags" =>
        /\ \A k \in 1..Len(unitResult) :
              /\ \E c \in 1..Len(FlagOrder) : FlagOrder[c] = unitResult[k].type
              /\ unitResult[k].severity =
                    (IF unitResult[k].type \in {"Credential request", "Payment pressure",
                                                "Data loss threat"}
                     THEN "high" ELSE "medium")
        /\ \A j, k \in 1..Len(unitResult) :
              j < k => FlagPosition(unitResult[j].type) < FlagPosition(unitResult[k].type)
        /\ IsEmptyText(unitCall.text) => unitResult = <<>>

\* a text with a phrase of every category, two of them of the urgency list:
\* five flags
C16_Witness ==
    /\ unitCall.fn = "buildPhishingFlags"
    /\ unitCall.text.phrases = Vocabulary
    /\ Len(unitResult) = 5

(***************************************************************************)
(* computePhishingRiskScore on its own, applied to flag lists that         *)
(* buildPhishingFlags returns, to lists of matches of every severity and   *)
(* to URL counts on both sides of 3.                                       *)
(***************************************************************************)
MaxScoreMatches == 3

MaxUrlCount == 4

ScoreFlags == {buildPhishingFlags(t) : t \in FlagTexts}

\* a match of the given severity
ScoreMatch(severity) == Match(PaypalLoginUrl, PaypalLoginUrl.host, NoReason, severity)

MatchLists(n) ==
    UNION {[1..k -> {ScoreMatch(s) : s \in {"high", "medium", "low"}}] : k \in 0..n}

ScoreMatches == MatchLists(MaxScoreMatches)

ApplyPhishingScore(phishingFlags, lookalikeMatches, urlCount) ==
    /\ unitCall = NoUnitCall
    /\ unitCall' = [fn |-> "computePhishingRiskScore", phishingFlags |-> phishingFlags,
                    lookalikeMatches |-> lookalikeMatches, urlCount |-> urlCount]
    /\ unitResult' = computePhishingRiskScore(phishingFlags, lookalikeMatches, urlCount)
    /\ UNCHANGED <<handlerVars, piiVars, inFlight, runVars>>

\* how many items of the list have the severity
CountOf(items, severity) ==
    Cardinality({k \in 1..Len(items) : items[k].severity = severity})

HasType(flags, type) == \E k \in 1..Len(flags) : flags[k].type = type

\* the sum of the severity weights of the items
WeightSum(items) ==
    34 * CountOf(items, "high") + 22 * CountOf(items, "medium") + 10 * CountOf(items, "low")

\* the five bonuses the claim names
StatedBonuses(flags, matches, urlCount) ==
    (IF HasType(flags, "Urgency & pressure") /\ HasType(flags, "Call-to-action link")
     THEN 12 ELSE 0)
    + (IF HasType(flags, "Credential request") /\ HasType(flags, "Call-to-action link")
       THEN 15 ELSE 0)
    + (IF HasType(flags, "Payment pressure") /\ HasType(flags, "Call-to-action link")
       THEN 10 ELSE 0)
    + (IF matches # <<>> /\ flags # <<>> THEN 10 ELSE 0)
    + (IF urlCount >= 3 THEN 5 ELSE 0)

\* the two bonuses of lines 856-864
FurtherBonuses(flags) ==
    (IF /\ HasType(flags, "Urgency & pressure")
        /\ HasType(flags, "Call-to-action link")
        /\ HasType(flags, "Data loss threat")
        /\ (HasType(flags, "Payment pressure") \/ HasType(flags, "Credential request"))
     THEN 30 ELSE 0)
    + (IF CountOf(flags, "high") >= 2 /\ HasType(flags, "Call-to-action link")
       THEN 18 ELSE 0)

\* C17 as stated: the phishing sub-score is the sum of the severity weights
\* (34, 22, 10) of the flags, plus 90% of the sum of the severity weights of
\* the lookalike matches, plus the bonuses +12, +15, +10, +10 and +5, clamped
\* to 0..100.  Both sides are taken ten times, 90% of a weight sum being a
\* multiple of one tenth.
C17_ScoreAsStated ==
    unitCall.fn = "computePhishingRiskScore" =>
        10 * unitResult =
            AtMost(10 * WeightSum(unitCall.phishingFlags)
                   + 9 * WeightSum(unitCall.lookalikeMatches)
                   + 10 * StatedBonuses(unitCall.phishingFlags, unitCall.lookalikeMatches,
                                        unitCall.urlCount),
                   1000)

\* C17, amended: the phishing sub-score is the sum of the severity weights
\* (34, 22, 10) of the flags, plus for every lookalike match 90% of its
\* severity weight rounded to the nearest integer (31, 20, 9), plus the
\* bonuses +12, +15, +10, +10 and +5, plus +30 for the critical pattern and
\* +18 for two or more high-severity flags with a call to action, clamped to
\* 0..100.
C17_ScoreWithRoundedMatchWeights ==
    unitCall.fn = "computePhishingRiskScore" =>
        unitResult =
            AtMost(WeightSum(unitCall.phishingFlags)
                   + 31 * CountOf(unitCall.lookalikeMatches, "high")
                   + 20 * CountOf(unitCall.lookalikeMatches, "medium")
                   + 9 * CountOf(unitCall.lookalikeMatches, "low")
                   + StatedBonuses(unitCall.phishingFlags, unitCall.lookalikeMatches,
                                   unitCall.urlCount)
                   + FurtherBonuses(unitCall.phishingFlags),
                   100)

\* two high-severity matches and no flag: 31 + 31 = 62, where 90% of the
\* matches' weight sum is 61.2
C17_Witness ==
    /\ unitCall.fn = "computePhishingRiskScore"
    /\ unitCall.phishingFlags = <<>>
    /\ Len(unitCall.lookalikeMatches) = 2
    /\ CountOf(unitCall.lookalikeMatches, "high") = 2
    /\ unitCall.urlCount = 0
    /\ unitResult = 62

(***************************************************************************)
(* Lines 1127-1139 of the handler on their own: the three sub-scores and   *)
(* the heuristic index, computed from findings that hold the numbers these *)
(* lines read: the flags, the matches, the number of URLs, the PII count   *)
(* and the two counts of the tracker audit.                                *)
(***************************************************************************)
MaxPiiCount == 6

MaxThirdParty == 6

MaxTrackers == 4

\* findings with the given flags, matches and counts
FindingsWith(phishingFlags, lookalikeMatches, urlCount, totalCount, thirdPartyCount, trackersFound) ==
    [urls |-> [k \in 1..urlCount |-> PaypalLoginUrl],
     resourceUrls |-> <<>>,
     phishingFlags |-> phishingFlags,
     lookalikeMatches |-> lookalikeMatches,
     pii |-> [NoPii EXCEPT !.totalCount = totalCount],
     trackerAudit |-> [primaryDomain |-> <<>>, thirdPartyResources |-> <<>>,
                       trackerMatches |-> <<>>, trackersFound |-> trackersFound,
                       thirdPartyCount |-> thirdPartyCount]]

\* a tracker is found on a third-party resource only
AuditCounts ==
    {c \in (0..MaxThirdParty) \X (0..MaxTrackers) : c[1] = 0 => c[2] = 0}

\* lines 1127-1139, once the findings are there
Scored(found, scores) ==
    [phishingScore |-> scores.phishingScore, piiScore |-> scores.piiScore,
     privacyScore |-> scores.privacyScore, heuristicIndex |-> HeuristicIndex(found, scores)]

ApplyHeuristicIndex(found) ==
    /\ unitCall = NoUnitCall
    /\ unitCall' = [fn |-> "heuristicIndex", found |-> found]
    /\ unitResult' = Scored(found, ProtectScores(found))
    /\ UNCHANGED <<handlerVars, piiVars, inFlight, runVars>>

\* the four flags that make the critical pattern, with payment or credential
IsCriticalPattern(flags) ==
    /\ HasType(flags, "Urgency & pressure")
    /\ HasType(flags, "Call-to-action link")
    /\ HasType(flags, "Data loss threat")
    /\ (HasType(flags, "Payment pressure") \/ HasType(flags, "Credential request"))

\* index is an integer nearest to hundredths / 100
IsNearest(index, hundredths) ==
    /\ 100 * index - hundredths <= 50
    /\ hundredths - 100 * index <= 50

\* the index is the rounded blend, raised to 97 at least for the critical
\* pattern
IsHeuristicIndex(index, flags, hundredths) ==
    \E base \in 0..100 :
        /\ IsNearest(base, hundredths)
        /\ index = IF IsCriticalPattern(flags) /\ base < 97 THEN 97 ELSE base

HostLabels ==
    {<<"e", "x", "a", "m", "p", "l", "e">>, <<"s", "u", "b">>, <<"c", "o">>, <<"u", "k">>,
     <<"c", "o", "m">>, <<"S", "h", "o", "p">>}

MaxHostLabels == 4

LabelLists == UNION {[1..n -> HostLabels] : n \in 1..MaxHostLabels}

RootDots == {<<>>, <<".">>}

HostNames == {JoinDots(labels) \o dot : labels \in LabelLists, dot \in RootDots}

ApplyRegistrableDomain(hostname) ==
    /\ unitCall = NoUnitCall
    /\ unitCall' = [fn |-> "getRegistrableDomain", hostname |-> hostname]
    /\ unitResult' = <<getRegistrableDomain(hostname)>>
    /\ UNCHANGED <<handlerVars, piiVars, inFlight, runVars>>

ReapplyRegistrableDomain ==
    /\ unitCall # NoUnitCall
    /\ unitCall.fn = "getRegistrableDomain"
    /\ Len(unitResult) = 1
    /\ unitResult' = Append(unitResult, getRegistrableDomain(unitResult[1]))
    /\ UNCHANGED unitCall
    /\ UNCHANGED <<handlerVars, piiVars, inFlight, runVars>>

\* the labels of a host name, in lower case
LabelsOf(hostname) == SelectSeq(SplitDots(ToLowerCase(hostname)), NonEmpty)

\* the last n labels of a host name, joined by dots
LastLabelsOf(hostname, n) == JoinDots(LastLabels(LabelsOf(hostname), n))

\* the last two labels form an entry of the multi-label public-suffix table
EndsInTableEntry(hostname) == LastLabelsOf(hostname, 2) \in SECOND_LEVEL_TLDS

RegistrableDomainCalled == unitCall # NoUnitCall /\ unitCall.fn = "getRegistrableDomain"

\* the registrable domain of a host of n labels as the specification states
\* it: the last three labels when n >= 3 and the last two form an entry of the
\* table, and otherwise the last min(n, 2) labels
StatedRegistrableDomain(hostname) ==
    LET n == Len(LabelsOf(hostname))
    IN IF n >= 3 /\ EndsInTableEntry(hostname)
       THEN LastLabelsOf(hostname, 3)
       ELSE LastLabelsOf(hostname, IF n < 2 THEN n ELSE 2)

\* C22: for a host of n labels getRegistrableDomain returns the last three
\* labels when n >= 3 and the last two form an entry of the multi-label
\* public-suffix table, and otherwise the last min(n, 2) labels; applied to
\* its own result it returns the same value.
C22_RegistrableDomainIsLastLabels ==
    RegistrableDomainCalled =>
        /\ unitResult[1] = StatedRegistrableDomain(unitCall.hostname)
        /\ Len(unitResult) = 2 => unitResult[2] = unitResult[1]

(***************************************************************************)
(* Which resources buildTrackerAudit compares with the tracker list.       *)
(***************************************************************************)
\* the resource is first-party: a page is known and the resource's
\* registrable domain is the page's
IsFirstParty(primaryUrl, resourceUrl) ==
    /\ primaryUrl # NullUrl
    /\ StatedRegistrableDomain(resourceUrl.host) = StatedRegistrableDomain(primaryUrl.host)

\* the domains of the tracker list in use
DomainsInUse(file) ==
    IF DirectoryDomains(file) = {} THEN FallbackDomains ELSE DirectoryDomains(file)

\* the audit holds a match of the resource with the tracker domain
HasTrackerMatch(audit, resourceUrl, domain) ==
    \E k \in 1..Len(audit.trackerMatches) :
        /\ audit.trackerMatches[k].resourceUrl = resourceUrl
        /\ audit.trackerMatches[k].trackerDomain = domain

InSeq(x, s) == \E k \in 1..Len(s) : s[k] = x

\* C23: a resource is compared with the tracker list only if it is
\* third-party (its registrable domain differs from the page's, or no page is
\* known): a first-party resource is neither in thirdPartyResources nor in a
\* tracker match, the resourceUrl of every tracker match is in
\* thirdPartyResources, and a third-party resource has a match for a domain of
\* the list iff its host is the domain or ends with '.' and the domain.
C23_OnlyThirdPartyCompared ==
    unitCall.fn = "buildTrackerAudit" =>
        /\ \A k \in 1..Len(unitCall.resourceUrls) :
              LET u == unitCall.resourceUrls[k]
              IN IF IsFirstParty(unitCall.primaryUrl, u)
                 THEN /\ ~InSeq(u, unitResult.thirdPartyResources)
                      /\ \A d \in DomainsInUse(unitCall.file) : ~HasTrackerMatch(unitResult, u, d)
                 ELSE \A d \in DomainsInUse(unitCall.file) :
                          HasTrackerMatch(unitResult, u, d) <=> IsHostOf(d, u.host)
        /\ \A k \in 1..Len(unitResult.trackerMatches) :
              InSeq(unitResult.trackerMatches[k].resourceUrl, unitResult.thirdPartyResources)

(***************************************************************************)
(* collectUrls on its own, for a request whose only content is free text   *)
(* with up to MaxTextUrls URL tokens.                                      *)
(***************************************************************************)
\* https://www.example.com
RawShopHttps == [RawShop EXCEPT !.prefix = "https://"]

\* http://www.example.com
RawShopHttp == [RawShop EXCEPT !.prefix = "http://"]

UrlTokens == {RawPaypa1, RawShop, RawShopHttps, RawShopHttp, RawAnalytics}

MaxTextUrls == 3

UrlTexts ==
    {[phrases |-> {}, urls |-> u, pii |-> <<>>] :
        u \in UNION {[1..n -> UrlTokens] : n \in 0..MaxTextUrls}}

ApplyCollectUrls(t) ==
    /\ unitCall = NoUnitCall
    /\ unitCall' = [fn |-> "collectUrls", text |-> t]
    /\ unitResult' = collectUrls(Body("text", TextContent(t), NoRaw, NoRaw, <<>>), t)
    /\ UNCHANGED <<handlerVars, piiVars, inFlight, runVars>>

\* the canonical URLs a token of the text stands for: what the http(s)://
\* pattern matches in it and what the www. pattern matches in it
UrlsOfToken(raw) ==
    (IF IsSchemeToken(raw) THEN {normalizeUrl(raw)} ELSE {})
    \cup (IF IsWwwToken(raw) THEN {normalizeUrl(WwwPart(raw))} ELSE {})

\* the position in the text of the first token that stands for the URL
FirstOccurrence(t, url) ==
    CHOOSE k \in 1..Len(t.urls) :
        /\ url \in UrlsOfToken(t.urls[k])
        /\ \A h \in 1..(k - 1) : url \notin UrlsOfToken(t.urls[h])

\* C24: the URL list built from free text holds each canonical URL at most
\* once and lists the URLs in the order of their first occurrence in the
\* text, whichever of the two patterns matched them.
C24_UrlsOnceInTextOrder ==
    unitCall.fn = "collectUrls" =>
        \A i \in 1..Len(unitResult) : \A j \in (i + 1)..Len(unitResult) :
            /\ unitResult[i] # unitResult[j]
            /\ FirstOccurrence(unitCall.text, unitResult[i])
                 <= FirstOccurrence(unitCall.text, unitResult[j])

(***************************************************************************)
(* levenshteinDistance on its own: it is applied to two strings, and then  *)
(* to the same strings in the other order.  The strings are all those of   *)
(* up to MaxWordLen characters over three characters, and the pair of the  *)
(* look-alike label and the brand it imitates.                             *)
(***************************************************************************)
WordChars == {"a", "l", "1"}

MaxWordLen == 3

Words == UNION {[1..n -> WordChars] : n \in 0..MaxWordLen}

Paypa1Label == <<"p", "a", "y", "p", "a", "1">>

PaypalToken == <<"p", "a", "y", "p", "a", "l">>

WordPairs == (Words \X Words) \cup {<<Paypa1Label, PaypalToken>>}

ApplyLevenshtein(a, b) ==
    /\ unitCall = NoUnitCall
    /\ unitCall' = [fn |-> "levenshteinDistance", a |-> a, b |-> b]
    /\ unitResult' = <<levenshteinDistance(a, b)>>
    /\ UNCHANGED <<handlerVars, piiVars, inFlight, runVars>>

ApplyLevenshteinReversed ==
    /\ unitCall # NoUnitCall
    /\ unitCall.fn = "levenshteinDistance"
    /\ Len(unitResult) = 1
    /\ unitResult' = Append(unitResult, levenshteinDistance(unitCall.b, unitCall.a))
    /\ UNCHANGED unitCall
    /\ UNCHANGED <<handlerVars, piiVars, inFlight, runVars>>

\* C25: levenshteinDistance is symmetric and zero only for identical strings:
\* distance(a, b) = distance(b, a), distance(a, b) = 0 iff a = b, and
\* distance("paypa1", "paypal") = 1.
C25_DistanceSymmetricZeroIffEqual ==
    unitCall.fn = "levenshteinDistance" =>
        /\ Len(unitResult) = 2 => unitResult[1] = unitResult[2]
        /\ unitResult[1] = 0 <=> unitCall.a = unitCall.b
        /\ (unitCall.a = Paypa1Label /\ unitCall.b = PaypalToken) => unitResult[1] = 1

\* both distances between "paypa1" and "paypal" are taken, and are 1
C25_Witness ==
    /\ unitCall.fn = "levenshteinDistance"
    /\ unitCall.a = Paypa1Label
    /\ unitCall.b = PaypalToken
    /\ unitResult = <<1, 1>>

(***************************************************************************)
(* The extension's service worker: runScanPipeline, followed from await to *)
(* await.  scan holds the request, the base URL read from storage, the     *)
(* fetch calls made so far (the endpoint, the payload and the timeout of   *)
(* each), the results of the ingest and analysis calls and how the         *)
(* pipeline ended.  A value that need not be a string (the content of the *)
(* request, the stored base URL, the fields of a normalized payload) is    *)
(* Str(s) for the string s, NotAString for a value of another type and     *)
(* NullValue for null or undefined; where a field holds a string or        *)
(* nothing (an error message, the url of a payload), "" stands for         *)
(* nothing.                                                                *)
(***************************************************************************)
DEFAULT_BACKEND_BASE_URL == "http://localhost:8000"

DEFAULT_REQUEST_TIMEOUT_MS == 70000

DEFAULT_INGEST_TIMEOUT_MS == 25000

VALID_INPUT_TYPES == {"text", "url", "image"}

VALID_MODES == {"verify", "protect"}

Str(s) == [type |-> "string", value |-> s]

NotAString == [type |-> "other", value |-> ""]

NullValue == [type |-> "null", value |-> ""]

StorageRejected == [type |-> "rejected", value |-> ""]

\* value.trim() for the strings of the model
TrimString(value) ==
    CASE value = " https://example.com/page " -> "https://example.com/page"
      [] value = "   " -> ""
      [] value = " Page text. " -> "Page text."
      [] value = " Bad link " -> "Bad link"
      [] OTHER -> value

IsString(value) == value.type = "string"

\* lines 13-20
normalizeBaseUrl(rawBaseUrl) ==
    IF ~IsString(rawBaseUrl) \/ TrimString(rawBaseUrl.value) = ""
    THEN DEFAULT_BACKEND_BASE_URL
    ELSE IF rawBaseUrl.value = "https://api.example.org/" THEN "https://api.example.org"
    ELSE TrimString(rawBaseUrl.value)

\* lines 22-30: stored is what chrome.storage.local.get resolves to for the
\* key, or "rejected" when it rejects
resolveBackendBaseUrl(stored) ==
    IF stored = StorageRejected THEN DEFAULT_BACKEND_BASE_URL ELSE normalizeBaseUrl(stored)

readPayloadText(value) == IF IsString(value) THEN TrimString(value.value) ELSE ""

ScanResult(ok, status, data, error) == [ok |-> ok, status |-> status, data |-> data, error |-> error]

createSkippedIngestResult(reason) ==
    ScanResult(TRUE, 0, [normalizedPayload |-> NullValue, skipped |-> TRUE, reason |-> reason], "")

\* the placeholder analysisResult starts as
SkippedAnalysis(mode) == ScanResult(FALSE, 0, NullValue, mode \o " was skipped because ingest failed.")

HasPayload(ingestData) ==
    /\ ingestData # NullValue
    /\ "normalizedPayload" \in DOMAIN ingestData
    /\ ingestData.normalizedPayload # NullValue

\* lines 81-102; a field the body does not hold is NullValue
buildAnalysisPayload(inputType, content, ingestData) ==
    LET normalizedPayload == IF HasPayload(ingestData) THEN ingestData.normalizedPayload
                             ELSE NullValue
        normalizedText == IF normalizedPayload # NullValue
                          THEN readPayloadText(normalizedPayload.text) ELSE ""
        normalizedInputType == IF normalizedPayload # NullValue /\ IsString(normalizedPayload.inputType)
                               THEN normalizedPayload.inputType.value ELSE inputType
    IN [inputType |-> normalizedInputType,
        content |-> IF normalizedText # "" THEN normalizedText ELSE content,
        normalizedPayload |-> normalizedPayload,
        url |-> IF inputType = "url" THEN content ELSE ""]

\* lines 104-115
buildDirectPayload(inputType, content) ==
    [inputType |-> inputType,
     content |-> content,
     normalizedPayload |-> NullValue,
     url |-> IF inputType = "url" THEN content ELSE ""]

\* what a fetch call meets: a response (its status and the value its body
\* parses to, NullValue when it is not JSON), the abort by the timer, or a
\* network failure
Fetched(status, json) == [kind |-> "response", status |-> status, json |-> json]

FetchAborted == [kind |-> "abort", status |-> 0, json |-> NullValue]

FetchFailed == [kind |-> "failure", status |-> 0, json |-> NullValue]

Json(status, message, data) == [status |-> status, message |-> message, data |-> data]

\* lines 117-174: the result of the call for what its fetch met
callJsonEndpoint(endpointUrl, timeoutMs, met) ==
    IF met.kind = "response"
    THEN LET data == met.json
             endpointMessage ==
                 IF data # NullValue /\ TrimString(data.message) # ""
                 THEN TrimString(data.message)
                 ELSE "Request failed with status " \o ToString(met.status) \o "."
             isApiSuccess == IF data # NullValue THEN data.status # "error" ELSE TRUE
             ok == met.status \in 200..299 /\ isApiSuccess
         IN ScanResult(ok, met.status, IF data # NullValue THEN data.data ELSE NullValue,
                       IF ok THEN "" ELSE endpointMessage)
    ELSE ScanResult(FALSE, 0, NullValue,
                    IF met.kind = "abort"
                    THEN "Request timed out after " \o ToString(timeoutMs \div 1000) \o "s ("
                             \o endpointUrl \o ")."
                    ELSE "Failed to fetch")

FetchCall(baseUrl, path, payload, timeoutMs) ==
    [endpointUrl |-> baseUrl \o path, path |-> path, payload |-> payload, timeoutMs |-> timeoutMs]

EndpointPath(mode) == IF mode = "verify" THEN "/api/verify" ELSE "/api/protect"

ScanRequest(mode, inputType, content) == [mode |-> mode, inputType |-> inputType, content |-> content]

ScanThrown(message) == [kind |-> "throw", message |-> message]

ScanReturned == [kind |-> "return", message |-> ""]

ScanPending == [kind |-> "", message |-> ""]

\* lines 177-191: the message arrives; the pipeline throws or reads the storage
ScanStart(request) ==
    /\ scan = NoRun
    /\ LET invalid ==
               IF request.mode \notin VALID_MODES
               THEN "Unsupported mode. Expected verify or protect."
               ELSE IF request.inputType \notin VALID_INPUT_TYPES
               THEN "Unsupported inputType. Expected text, url, or image."
               ELSE IF readPayloadText(request.content) = "" THEN "Scan content is empty."
               ELSE ""
       IN scan' = [pc |-> IF invalid # "" THEN "done" ELSE "storage",
                   request |-> request,
                   baseUrl |-> "",
                   calls |-> <<>>,
                   ingest |-> NullValue,
                   analysis |-> NullValue,
                   outcome |-> IF invalid # "" THEN ScanThrown(invalid) ELSE ScanPending]
    /\ UNCHANGED <<handlerVars, piiVars, unitVars, inFlight, geminiRun, sidebar>>

\* lines 193-207: the storage read settles; the pipeline makes the ingest
\* call for a URL and the analysis call for a text or an image
ScanBaseUrl(stored) ==
    /\ scan.pc = "storage"
    /\ LET baseUrl == resolveBackendBaseUrl(stored)
           inputType == scan.request.inputType
           normalizedContent == readPayloadText(scan.request.content)
           shouldUseIngest == inputType = "url"
       IN scan' =
            IF shouldUseIngest
            THEN [scan EXCEPT
                    !.pc = "ingest",
                    !.baseUrl = baseUrl,
                    !.calls = <<FetchCall(baseUrl, "/api/ingest",
                                          [inputType |-> inputType, content |-> normalizedContent,
                                           normalizedPayload |-> NullValue, url |-> ""],
                                          DEFAULT_INGEST_TIMEOUT_MS)>>]
            ELSE [scan EXCEPT
                    !.pc = "analysis",
                    !.baseUrl = baseUrl,
                    !.ingest = createSkippedIngestResult("Ingest skipped for " \o inputType \o " input."),
                    !.analysis = SkippedAnalysis(scan.request.mode),
                    !.calls = <<FetchCall(baseUrl, EndpointPath(scan.request.mode),
                                          buildDirectPayload(inputType, normalizedContent),
                                          DEFAULT_REQUEST_TIMEOUT_MS)>>]
    /\ UNCHANGED <<handlerVars, piiVars, unitVars, inFlight, geminiRun, sidebar>>

\* the pipeline without its fallback: after a failed ingest call it returns
\* with the analysis skipped; the one analysis call of every valid request
\* (C26) must not hold of it
ScanIngestSettlesWithoutFallback(met) ==
    /\ scan.pc = "ingest"
    /\ LET call == scan.calls[Len(scan.calls)]
           ingestResult == callJsonEndpoint(call.endpointUrl, call.timeoutMs, met)
           payload == buildAnalysisPayload(scan.request.inputType,
                                           readPayloadText(scan.request.content),
                                           ingestResult.data)
       IN scan' = IF ingestResult.ok
                  THEN [scan EXCEPT
                          !.pc = "analysis",
                          !.ingest = ingestResult,
                          !.analysis = SkippedAnalysis(scan.request.mode),
                          !.calls = Append(@, FetchCall(scan.baseUrl,
                                                        EndpointPath(scan.request.mode),
                                                        payload, DEFAULT_REQUEST_TIMEOUT_MS))]
                  ELSE [scan EXCEPT
                          !.pc = "done",
                          !.ingest = ingestResult,
                          !.analysis = SkippedAnalysis(scan.request.mode),
                          !.outcome = ScanReturned]
    /\ UNCHANGED <<handlerVars, piiVars, unitVars, inFlight, geminiRun, sidebar>>

\* lines 200-229: the ingest call settles; the pipeline makes the analysis
\* call, on the ingest output or directly
ScanIngestSettles(met) ==
    /\ scan.pc = "ingest"
    /\ LET call == scan.calls[Len(scan.calls)]
           ingestResult == callJsonEndpoint(call.endpointUrl, call.timeoutMs, met)
           normalizedContent == readPayloadText(scan.request.content)
           payload == IF ingestResult.ok
                      THEN buildAnalysisPayload(scan.request.inputType, normalizedContent,
                                                ingestResult.data)
                      ELSE buildDirectPayload(scan.request.inputType, normalizedContent)
       IN scan' = [scan EXCEPT
                     !.pc = "analysis",
                     !.ingest = ingestResult,
                     !.analysis = SkippedAnalysis(scan.request.mode),
                     !.calls = Append(@, FetchCall(scan.baseUrl, EndpointPath(scan.request.mode),
                                                   payload, DEFAULT_REQUEST_TIMEOUT_MS))]
    /\ UNCHANGED <<handlerVars, piiVars, unitVars, inFlight, geminiRun, sidebar>>

\* lines 217-246: the analysis call settles; the pipeline returns
ScanAnalysisSettles(met) ==
    /\ scan.pc = "analysis"
    /\ LET call == scan.calls[Len(scan.calls)]
           analysisResult == callJsonEndpoint(call.endpointUrl, call.timeoutMs, met)
           bothFailed == scan.request.inputType = "url" /\ ~scan.ingest.ok /\ ~analysisResult.ok
       IN scan' = [scan EXCEPT
                     !.pc = "done",
                     !.analysis =
                         IF bothFailed
                         THEN [analysisResult EXCEPT
                                 !.error = "Ingest failed ("
                                     \o (IF scan.ingest.error # "" THEN scan.ingest.error ELSE "unknown")
                                     \o ") and " \o scan.request.mode \o " analysis failed ("
                                     \o (IF analysisResult.error # "" THEN analysisResult.error
                                         ELSE "unknown")
                                     \o ")."]
                         ELSE analysisResult,
                     !.outcome = ScanReturned]
    /\ UNCHANGED <<handlerVars, piiVars, unitVars, inFlight, geminiRun, sidebar>>

(***************************************************************************)
(* The scan requests and what the calls meet.                              *)
(***************************************************************************)
ScanContents ==
    {Str(""), Str("   "), Str("Bad link"), Str(" https://example.com/page "), NotAString}

ScanRequests ==
    {ScanRequest(mode, inputType, content) :
        mode \in VALID_MODES \cup {"scan"},
        inputType \in VALID_INPUT_TYPES \cup {"pdf"},
        content \in ScanContents}

StoredBaseUrls == {NullValue, StorageRejected, Str("   "), Str("https://api.example.org/")}

NormalizedPayloads ==
    {NullValue,
     [inputType |-> Str("text"), text |-> Str(" Page text. ")],
     [inputType |-> NotAString, text |-> Str("   ")],
     [inputType |-> Str("url"), text |-> NotAString]}

IngestMet ==
    {FetchAborted, FetchFailed, Fetched(200, NullValue), Fetched(502, NullValue),
     Fetched(422, Json("error", " Bad link ", NullValue)),
     Fetched(200, Json("error", "", NullValue)),
     Fetched(200, Json("success", "", NullValue))}
    \cup {Fetched(200, Json("success", "", [normalizedPayload |-> p])) : p \in NormalizedPayloads}

AnalysisMet ==
    {FetchAborted, FetchFailed, Fetched(200, NullValue),
     Fetched(500, Json("error", "Internal Server Error", NullValue)),
     Fetched(400, Json("error", "", NullValue)),
     Fetched(200, Json("success", "", [veracityIndex |-> 42]))}

InitScan ==
    /\ useGemini = FALSE
    /\ trackerFile \in {f \in TrackerFiles : f.state = "missing"}
    /\ HandlerIdle
    /\ PiiIdle
    /\ UnitIdle
    /\ PairIdle
    /\ RunIdle

ScanStarts == scan = NoRun /\ \E request \in ScanRequests : ScanStart(request)

ScanReadsStorage == scan.pc = "storage" /\ \E stored \in StoredBaseUrls : ScanBaseUrl(stored)

ScanIngests == scan.pc = "ingest" /\ \E met \in IngestMet : ScanIngestSettles(met)

ScanAnalyses == scan.pc = "analysis" /\ \E met \in AnalysisMet : ScanAnalysisSettles(met)

NextScan ==
    \/ ScanStarts
    \/ ScanReadsStorage
    \/ ScanIngests
    \/ ScanAnalyses

SpecScan == InitScan /\ [][NextScan]_vars

\* the request is valid: a known mode, a known input type, a content that
\* is a string with more than white space
IsValidScan(request) ==
    /\ request.mode \in {"verify", "protect"}
    /\ request.inputType \in {"text", "url", "image"}
    /\ request.content.type = "string"
    /\ TrimString(request.content.value) # ""

\* the paths of the calls made so far
PathsCalled == [k \in 1..Len(scan.calls) |-> scan.calls[k].path]

\* the endpoint the request selects
SelectedPath == IF scan.request.mode = "verify" THEN "/api/verify" ELSE "/api/protect"

\* the normalized payload of the ingest output, NullValue when it has none
IngestedPayload ==
    IF scan.ingest.data # NullValue /\ "normalizedPayload" \in DOMAIN scan.ingest.data
    THEN scan.ingest.data.normalizedPayload ELSE NullValue

\* C26: for a valid scan request runScanPipeline calls the selected analysis
\* endpoint exactly once: for a text or an image without calling
\* /api/ingest; for a URL after exactly one /api/ingest call, with the
\* normalized payload when ingest succeeded and the direct payload when it
\* failed.  A failed ingest does not prevent the analysis call, and the
\* analysis result returned is not the placeholder 'skipped because ingest
\* failed'.
C26_AnalysisCalledOnce ==
    (scan.pc = "done" /\ IsValidScan(scan.request)) =>
        LET content == TrimString(scan.request.content.value)
            last == scan.calls[Len(scan.calls)]
        IN /\ scan.outcome.kind = "return"
           /\ PathsCalled = IF scan.request.inputType = "url"
                            THEN <<"/api/ingest", SelectedPath>>
                            ELSE <<SelectedPath>>
           /\ last.payload.content # ""
           /\ scan.request.inputType # "url" =>
                 last.payload = [inputType |-> scan.request.inputType, content |-> content,
                                 normalizedPayload |-> NullValue, url |-> ""]
           /\ (scan.request.inputType = "url" /\ scan.ingest.ok) =>
                 /\ last.payload.normalizedPayload = IngestedPayload
                 /\ last.payload.url = content
           /\ (scan.request.inputType = "url" /\ ~scan.ingest.ok) =>
                 last.payload = [inputType |-> "url", content |-> content,
                                 normalizedPayload |-> NullValue, url |-> content]
           /\ scan.analysis.error # scan.request.mode \o " was skipped because ingest failed."

\* a URL scan whose ingest call timed out and whose analysis succeeded on the
\* direct payload
C26_Witness ==
    /\ scan.pc = "done"
    /\ IsValidScan(scan.request)
    /\ scan.request.inputType = "url"
    /\ ~scan.ingest.ok
    /\ scan.ingest.status = 0
    /\ Len(scan.calls) = 2
    /\ scan.calls[2].path = "/api/protect"
    /\ scan.analysis.ok

(***************************************************************************)
(* analyzeInputWithGemini followed from request to request.  geminiRun     *)
(* holds the arguments, the requests sent so far (the tool each carries),  *)
(* what each request that has settled met, the timer (unset, armed or      *)
(* cleared) and how the call ended: with a normalized result, a fallback   *)
(* result or an error.                                                     *)
(***************************************************************************)
GeminiEnded(run, kind, call) ==
    [run EXCEPT !.pc = "done",
                !.timer = IF run.timer = "armed" THEN "cleared" ELSE run.timer,
                !.ending = kind,
                !.outcome = call]

\* lines 495-519, from the payload the call keeps on
GeminiEndedFromPayload(run, payload) ==
    GeminiEnded(run,
                IF parseModelText(payload) = "none" THEN "fallback"
                ELSE IF parseModelText(payload) = "json" THEN "normalized"
                ELSE "error",
                FromPayload(run.inputType, run.content, DEFAULT_MODEL, payload))

\* lines 520-528: the catch and finally blocks for an error of fetch
GeminiEndedOnFetchError(run, met) ==
    IF met.kind = "abort"
    THEN GeminiEnded(run, "fallback",
                     Returned(buildFallbackResult(run.inputType, run.content, DEFAULT_MODEL, <<>>)))
    ELSE GeminiEnded(run, "error", Thrown(TypeError("fetch failed")))

GeminiSent(run, tool, next) ==
    [run EXCEPT !.pc = next, !.requests = Append(@, tool)]

\* lines 484-500, for a request result that is final: the error thrown for a
\* failed request, the request without tools for an empty model text, the
\* result otherwise
GeminiAfterResult(run, met) ==
    IF met.kind = "http"
    THEN GeminiEnded(run, "error",
                     Thrown(GeminiRequestError(IF met.status >= 500 THEN 502 ELSE met.status,
                                               met.message)))
    ELSE IF parseModelText(met.payload) = "none"
    THEN GeminiSent([run EXCEPT !.payload = met.payload], "none", "noTool")
    ELSE GeminiEndedFromPayload(run, met.payload)

\* lines 407-437 and 477: the call starts; it throws, or arms the timer and
\* sends the request with google_search
GeminiStart(inputType, content, apiKey) ==
    /\ geminiRun = NoRun
    /\ LET run == [pc |-> "start", inputType |-> inputType, content |-> content,
                   apiKey |-> apiKey, requests |-> <<>>, met |-> <<>>, timer |-> "unset",
                   payload |-> NoPayload, ending |-> "", outcome |-> Thrown(NoError)]
       IN geminiRun' =
            IF content.kind = "absent"
            THEN GeminiEnded(run, "error", Thrown(GeminiRequestError(400, "Missing analysis content.")))
            ELSE IF ~apiKey
            THEN GeminiEnded(run, "error",
                             Thrown(GeminiRequestError(500, "Missing GEMINI_API_KEY for analysis.")))
            ELSE IF inputType = "image" /\ ~(content.kind = "image" /\ content.data = "ok")
            THEN GeminiEnded(run, "error",
                             Thrown(GeminiRequestError(400, "Image content must be a valid base64 data URL.")))
            ELSE GeminiSent([run EXCEPT !.timer = "armed"], "google_search", "first")
    /\ UNCHANGED <<handlerVars, piiVars, unitVars, inFlight, scan, sidebar>>

\* lines 477-489: the request with google_search settles
GeminiFirstSettles(met) ==
    /\ geminiRun.pc = "first"
    /\ LET run == [geminiRun EXCEPT !.met = Append(@, met)]
       IN geminiRun' =
            IF met.kind \in {"abort", "network"} THEN GeminiEndedOnFetchError(run, met)
            ELSE IF met.kind = "http" /\ met.status = 400 /\ NamesSearchTool(met.message)
            THEN GeminiSent(run, "google_search_retrieval", "retry")
            ELSE GeminiAfterResult(run, met)
    /\ UNCHANGED <<handlerVars, piiVars, unitVars, inFlight, scan, sidebar>>

\* lines 482-500: the request with google_search_retrieval settles
GeminiRetrySettles(met) ==
    /\ geminiRun.pc = "retry"
    /\ LET run == [geminiRun EXCEPT !.met = Append(@, met)]
       IN geminiRun' =
            IF met.kind \in {"abort", "network"} THEN GeminiEndedOnFetchError(run, met)
            ELSE GeminiAfterResult(run, met)
    /\ UNCHANGED <<handlerVars, piiVars, unitVars, inFlight, scan, sidebar>>

\* lines 498-519: the request without tools settles
GeminiNoToolSettles(met) ==
    /\ geminiRun.pc = "noTool"
    /\ LET run == [geminiRun EXCEPT !.met = Append(@, met)]
       IN geminiRun' =
            IF met.kind \in {"abort", "network"} THEN GeminiEndedOnFetchError(run, met)
            ELSE IF met.kind = "ok" THEN GeminiEndedFromPayload(run, met.payload)
            ELSE GeminiEndedFromPayload(run, run.payload)
    /\ UNCHANGED <<handlerVars, piiVars, unitVars, inFlight, scan, sidebar>>

GeminiArguments ==
    {<<"text", TextContent(PlainText)>>, <<"url", UrlContent(RawPaypa1)>>,
     <<"image", ImageContent("ok")>>, <<"image", ImageContent("empty")>>,
     <<"image", TextContent(PlainText)>>, <<"text", NoContent>>}

InitGemini ==
    /\ useGemini = FALSE
    /\ trackerFile \in {f \in TrackerFiles : f.state = "missing"}
    /\ HandlerIdle
    /\ PiiIdle
    /\ UnitIdle
    /\ PairIdle
    /\ RunIdle

GeminiStarts ==
    /\ geminiRun = NoRun
    /\ \E arguments \in GeminiArguments, apiKey \in BOOLEAN :
          GeminiStart(arguments[1], arguments[2], apiKey)

GeminiFirst == geminiRun.pc = "first" /\ \E met \in FirstResponses : GeminiFirstSettles(met)

GeminiRetry == geminiRun.pc = "retry" /\ \E met \in LaterResponses : GeminiRetrySettles(met)

GeminiNoTool == geminiRun.pc = "noTool" /\ \E met \in LaterResponses : GeminiNoToolSettles(met)

NextGemini ==
    \/ GeminiStarts
    \/ GeminiFirst
    \/ GeminiRetry
    \/ GeminiNoTool

SpecGemini == InitGemini /\ [][NextGemini]_vars

\* the met-th response was a 400 whose message names the search tool
MetToolError(k) ==
    /\ geminiRun.met[k].kind = "http"
    /\ geminiRun.met[k].status = 400
    /\ geminiRun.met[k].message \in {ToolMessage}

\* the k-th response was successful and its model text empty
MetEmptyText(k) ==
    /\ geminiRun.met[k].kind = "ok"
    /\ geminiRun.met[k].payload.modelText = "none"

\* C29: one call of analyzeInputWithGemini sends at most three requests, in
\* this order: the request with google_search; a retry with
\* google_search_retrieval only after a 400 whose message names the search
\* tool; a retry without tools only after a successful response whose model
\* text is empty.  The call ends with a normalized result, a fallback result
\* or a GeminiRequestError, and with the timer cleared if it was armed.
C29_RequestsAndEndings ==
    geminiRun.pc # "idle" =>
        /\ geminiRun.requests \in
              {<<>>, <<"google_search">>, <<"google_search", "google_search_retrieval">>,
               <<"google_search", "none">>,
               <<"google_search", "google_search_retrieval", "none">>}
        /\ \A k \in 2..Len(geminiRun.requests) :
              /\ geminiRun.requests[k] = "google_search_retrieval" => MetToolError(k - 1)
              /\ geminiRun.requests[k] = "none" => MetEmptyText(k - 1)
        /\ geminiRun.pc = "done" =>
              /\ geminiRun.timer # "armed"
              /\ \/ geminiRun.ending = "normalized" /\ geminiRun.outcome.outcome = "return"
                 \/ geminiRun.ending = "fallback" /\ geminiRun.outcome.outcome = "return"
                 \/ /\ geminiRun.outcome.outcome = "throw"
                    /\ geminiRun.outcome.error.class = "GeminiRequestError"

(***************************************************************************)
(* The sidebar of the extension (content-script.js:384-1010).  sidebar     *)
(* holds the fields of the mounted panel the scan depends on: the mode,    *)
(* the input tab, which inputs hold a usable value (filled), isRunning,    *)
(* the progress timer (progressIntervalId, "null" or "set"), the scan      *)
(* requests sent to the service worker and not yet answered (requests),    *)
(* how the last completed scan ended (lastScan) and the handlers that are  *)
(* waiting at an await (flows), each with the event that started it and    *)
(* the await it is at.  A handler runs from one await to the next without  *)
(* interruption; events arrive whether or not the panel shows the control  *)
(* as disabled, so every order of events the page can produce is covered.  *)
(***************************************************************************)
MaxFlows == 2

InputTabs == {"image", "url", "text"}

SidebarModes == {"verify", "protect"}

\* what chrome.runtime.sendMessage met: a response with an analysis that
\* succeeded, one with an analysis that failed, a response that is not ok (or
\* none), or a rejection
ScanResponses == {"ok", "analysisFailed", "notOk", "rejected"}

\* lines 521-530: the fields of the panel after mountSidebar
Mounted ==
    [pc |-> "open", selectedMode |-> "", activeInputType |-> "text", filled |-> {},
     isRunning |-> FALSE, progressIntervalId |-> "null", requests |-> 0,
     lastScan |-> "", flows |-> <<>>]

Task(kind, at) == [kind |-> kind, at |-> at]

OtherFlows(flows, i) == SubSeq(flows, 1, i - 1) \o SubSeq(flows, i + 1, Len(flows))

setMode(s, mode) == [s EXCEPT !.selectedMode = mode]

setRunningIgnored(s, running) == s

setRunning(s, running) == [s EXCEPT !.isRunning = running]

clearAnalysisProgress(s) ==
    IF s.progressIntervalId # "null" THEN [s EXCEPT !.progressIntervalId = "null"] ELSE s

startAnalysisProgress(s) == [clearAnalysisProgress(s) EXCEPT !.progressIntervalId = "set"]

setInputTab(s, inputType) == [s EXCEPT !.activeInputType = inputType]

\* dataUrl says whether the data URL is a non-empty string
applyImageDataUrl(s, dataUrl) ==
    setInputTab([s EXCEPT !.filled = IF dataUrl THEN @ \cup {"image"} ELSE @ \ {"image"}],
                "image")

\* the input type of the payload, "" for null
resolvePayload(s) == IF s.activeInputType \in s.filled THEN s.activeInputType ELSE ""

\* lines 745-757: the early returns of runScan
runScanReturns(s) == s.isRunning \/ s.selectedMode = "" \/ resolvePayload(s) = ""

\* lines 760-775: runScan up to its await
runScanSends(s) ==
    [startAnalysisProgress(setRunning(s, TRUE)) EXCEPT !.requests = @ + 1]

\* runScan called by the handler of the event kind, the other waiting
\* handlers being rest: the handler waits for the response or goes on to
\* its end
runScan(s, kind, rest) ==
    IF runScanReturns(s)
    THEN [s EXCEPT !.flows = rest]
    ELSE [runScanSends(s) EXCEPT !.flows = Append(rest, Task(kind, "scan"))]

\* lines 776-800: runScan from the response on, with its catch and finally
runScanSettles(s, met) ==
    [setRunning(clearAnalysisProgress(s), FALSE) EXCEPT !.requests = @ - 1, !.lastScan = met]

\* lines 384-1010: mountSidebar
SidebarMounts ==
    /\ sidebar = NoRun
    /\ sidebar' = Mounted
    /\ UNCHANGED <<handlerVars, piiVars, unitVars, inFlight, scan, geminiRun>>

\* lines 803-804: a click on a mode card
SidebarSetMode ==
    /\ sidebar.pc = "open"
    /\ \E mode \in SidebarModes : sidebar' = setMode(sidebar, mode)
    /\ UNCHANGED <<handlerVars, piiVars, unitVars, inFlight, scan, geminiRun>>

\* lines 806-808: a click on an input tab
SidebarSetInputTab ==
    /\ sidebar.pc = "open"
    /\ \E inputType \in InputTabs : sidebar' = setInputTab(sidebar, inputType)
    /\ UNCHANGED <<handlerVars, piiVars, unitVars, inFlight, scan, geminiRun>>

\* lines 810-811: the text or the URL is edited, to a usable value or not
SidebarInput ==
    /\ sidebar.pc = "open"
    /\ \E inputType \in {"url", "text"}, usable \in BOOLEAN :
          sidebar' = [sidebar EXCEPT !.filled = IF usable THEN @ \cup {inputType}
                                                ELSE @ \ {inputType}]
    /\ UNCHANGED <<handlerVars, piiVars, unitVars, inFlight, scan, geminiRun>>

\* line 956: a click on Analyze
SidebarClickAnalyze ==
    /\ sidebar.pc = "open"
    /\ Len(sidebar.flows) < MaxFlows
    /\ sidebar' = runScan(sidebar, "button", sidebar.flows)
    /\ UNCHANGED <<handlerVars, piiVars, unitVars, inFlight, scan, geminiRun>>

\* lines 813-830 and 846-864: captureFullViewAndAnalyze and
\* captureAreaAndAnalyze up to their first await
SidebarCapture ==
    /\ sidebar.pc = "open"
    /\ Len(sidebar.flows) < MaxFlows
    /\ \E kind \in {"full", "area"} :
          sidebar' = IF sidebar.isRunning \/ sidebar.selectedMode = ""
                     THEN sidebar
                     ELSE [sidebar EXCEPT !.flows = Append(@, Task(kind, "delay"))]
    /\ UNCHANGED <<handlerVars, piiVars, unitVars, inFlight, scan, geminiRun>>

\* lines 886-907: handleClipboardPaste up to its await, for a clipboard with
\* an image file or without
SidebarPaste ==
    /\ sidebar.pc = "open"
    /\ Len(sidebar.flows) < MaxFlows
    /\ \E imageFile \in BOOLEAN :
          sidebar' = IF sidebar.isRunning \/ sidebar.activeInputType # "image" \/ ~imageFile
                     THEN sidebar
                     ELSE [sidebar EXCEPT !.flows = Append(@, Task("paste", "read"))]
    /\ UNCHANGED <<handlerVars, piiVars, unitVars, inFlight, scan, geminiRun>>

\* lines 926-932: the change handler of the file input up to its await
SidebarFileChange ==
    /\ sidebar.pc = "open"
    /\ Len(sidebar.flows) < MaxFlows
    /\ sidebar' = [sidebar EXCEPT !.flows = Append(@, Task("file", "read"))]
    /\ UNCHANGED <<handlerVars, piiVars, unitVars, inFlight, scan, geminiRun>>

\* the await that follows in a capture flow, "" after the last one
NextAwait(task) ==
    IF task.at = "delay" THEN "capture"
    ELSE IF task.kind = "area" /\ task.at = "capture" THEN "pick"
    ELSE IF task.kind = "area" /\ task.at = "pick" THEN "crop"
    ELSE ""

\* lines 830-844, 864-884, 908-923, 932-946: the handler flows[i] goes on
\* after its await, which resolved with a data URL (met = "data"), resolved
\* with an empty string ("empty") or rejected ("rejected")
FlowGoesOn(s, i, met) ==
    LET task == s.flows[i]
        rest == OtherFlows(s.flows, i)
    IN IF met = "rejected"
       THEN [s EXCEPT !.flows = rest,
                      !.filled = IF task.kind = "file" THEN @ \ {"image"} ELSE @]
       ELSE IF NextAwait(task) # ""
       THEN [s EXCEPT !.flows[i] = Task(task.kind, NextAwait(task))]
       ELSE IF task.kind = "file"
       THEN [applyImageDataUrl(s, met = "data") EXCEPT !.flows = rest]
       ELSE IF task.kind = "paste" /\ s.selectedMode = ""
       THEN [applyImageDataUrl(s, met = "data") EXCEPT !.flows = rest]
       ELSE runScan(applyImageDataUrl(s, met = "data"), task.kind, rest)

\* what the await of a task can meet: the timer only resolves, the file
\* reader can give an empty string, the captures give a data URL or reject
AwaitMet(task) ==
    IF task.at = "delay" THEN {"data"}
    ELSE IF task.at = "read" THEN {"data", "empty", "rejected"}
    ELSE {"data", "rejected"}

SidebarFlowGoesOn ==
    /\ sidebar.pc = "open"
    /\ \E i \in 1..Len(sidebar.flows) :
          /\ sidebar.flows[i].at # "scan"
          /\ \E met \in AwaitMet(sidebar.flows[i]) : sidebar' = FlowGoesOn(sidebar, i, met)
    /\ UNCHANGED <<handlerVars, piiVars, unitVars, inFlight, scan, geminiRun>>

\* lines 776-800: the service worker answers a scan request
SidebarScanSettles ==
    /\ sidebar.pc = "open"
    /\ \E i \in 1..Len(sidebar.flows) :
          /\ sidebar.flows[i].at = "scan"
          /\ \E met \in ScanResponses :
                sidebar' = [runScanSettles(sidebar, met) EXCEPT
                               !.flows = OtherFlows(sidebar.flows, i)]
    /\ UNCHANGED <<handlerVars, piiVars, unitVars, inFlight, scan, geminiRun>>

InitSidebar ==
    /\ useGemini = FALSE
    /\ trackerFile \in {f \in TrackerFiles : f.state = "missing"}
    /\ HandlerIdle
    /\ PiiIdle
    /\ UnitIdle
    /\ PairIdle
    /\ RunIdle

NextSidebar ==
    \/ SidebarMounts
    \/ SidebarSetMode
    \/ SidebarSetInputTab
    \/ SidebarInput
    \/ SidebarClickAnalyze
    \/ SidebarCapture
    \/ SidebarPaste
    \/ SidebarFileChange
    \/ SidebarFlowGoesOn
    \/ SidebarScanSettles

SpecSidebar == InitSidebar /\ [][NextSidebar]_vars

\* the handlers that wait for the answer to a scan request
ScansWaiting == {i \in 1..Len(sidebar.flows) : sidebar.flows[i].at = "scan"}

\* C30: in the sidebar at most one scan request is in flight at any time, in
\* every order of the Analyze button, the two capture flows and clipboard
\* paste: a request is in flight exactly while isRunning is true (runScan
\* starts one only when isRunning is false and sets isRunning before its
\* first await), and when no scan is in flight, so after every completed
\* scan, successful or failed, isRunning is false and no progress timer runs.
C30_AtMostOneScanInFlight ==
    sidebar.pc = "open" =>
        /\ sidebar.requests <= 1
        /\ Cardinality(ScansWaiting) = sidebar.requests
        /\ sidebar.isRunning <=> sidebar.requests = 1
        /\ ~sidebar.isRunning => sidebar.progressIntervalId = "null"

\* a scan has failed, the next one is in flight, and a capture flow started
\* before it is still waiting
C30_Witness ==
    /\ sidebar.pc = "open"
    /\ sidebar.lastScan = "rejected"
    /\ sidebar.requests = 1
    /\ sidebar.isRunning
    /\ \E i \in 1..Len(sidebar.flows) : sidebar.flows[i].kind \in {"full", "area"}
    /\ \E i \in 1..Len(sidebar.flows) : sidebar.flows[i].kind = "button"

(***************************************************************************)
(* The specification of the analyzers applied on their own.                *)
(***************************************************************************)
InitAnalyzers ==
    /\ useGemini = FALSE
    /\ trackerFile \in {f \in TrackerFiles : f.state = "missing"}
    /\ HandlerIdle
    /\ PiiIdle
    /\ UnitIdle
    /\ PairIdle
    /\ RunIdle

\* an analyzer is applied, once, to any of its arguments
CallLookalike ==
    /\ unitCall = NoUnitCall
    /\ \E urls \in LookalikeInputs : ApplyLookalike(urls)

CallTrackerAudit ==
    /\ unitCall = NoUnitCall
    /\ \E primaryUrl \in AuditPrimaryUrls, resourceUrls \in AuditResourceLists,
          file \in DirectoryFiles :
            ApplyTrackerAudit(primaryUrl, resourceUrls, file)

CallPhishingFlags ==
    /\ unitCall = NoUnitCall
    /\ \E t \in FlagTexts : ApplyPhishingFlags(t)

CallPhishingScore ==
    /\ unitCall = NoUnitCall
    /\ \E phishingFlags \in ScoreFlags, lookalikeMatches \in ScoreMatches,
          urlCount \in 0..MaxUrlCount :
            ApplyPhishingScore(phishingFlags, lookalikeMatches, urlCount)

CallHeuristicIndex ==
    /\ unitCall = NoUnitCall
    /\ \E phishingFlags \in ScoreFlags, lookalikeMatches \in MatchLists(1),
          urlCount \in {0, 3}, totalCount \in 0..MaxPiiCount, counts \in AuditCounts :
            ApplyHeuristicIndex(FindingsWith(phishingFlags, lookalikeMatches, urlCount,
                                             totalCount, counts[1], counts[2]))

CallRegistrableDomain ==
    /\ unitCall = NoUnitCall
    /\ \E hostname \in HostNames : ApplyRegistrableDomain(hostname)

CallCollectUrls ==
    /\ unitCall = NoUnitCall
    /\ \E t \in UrlTexts : ApplyCollectUrls(t)

CallLevenshtein ==
    /\ unitCall = NoUnitCall
    /\ \E pair \in WordPairs : ApplyLevenshtein(pair[1], pair[2])

NextAnalyzers ==
    \/ CallLookalike
    \/ CallTrackerAudit
    \/ CallPhishingFlags
    \/ CallPhishingScore
    \/ CallHeuristicIndex
    \/ CallRegistrableDomain
    \/ ReapplyRegistrableDomain
    \/ CallCollectUrls
    \/ CallLevenshtein
    \/ ApplyLevenshteinReversed

SpecAnalyzers == InitAnalyzers /\ [][NextAnalyzers]_vars

=============================================================================
